---- MODULE Spec2Model ----
(***************************************************************************)
(* Verification model of the Alpha-Predator front end.                     *)
(*                                                                         *)
(* Part 1: the staged analysis flow of AnalysisFlow.vue (scan sectors ->   *)
(* select sectors -> recommend stocks): the reactive refs of the           *)
(* component, its handlers, the continuations of its two fetch calls and   *)
(* the gating that the template puts on the handlers (v-if / :disabled).   *)
(***************************************************************************)
EXTENDS Integers, Sequences, FiniteSets, TLC

(***************************************************************************)
(* Bounds of the model.                                                    *)
(***************************************************************************)
\* Number of distinct sector names the backend may report.
NumSectors == 3
\* Cap on the number of fetch calls awaiting their response.
MaxInflight == 2

(***************************************************************************)
(* Values.                                                                 *)
(***************************************************************************)
\* JavaScript null, for the refs that hold an object.
Null == [null |-> TRUE]
\* JavaScript null, for the ref that holds a string (errorMessage).
NoMessage == "null"

\* Sector names (Sector.name, the unique key of a sector).
SectorNames == 1..NumSectors

\* A SectorAnalysis as the flow uses it: the names of its sectors (unique
\* within one analysis, so a set).
SectorAnalyses == [sectors : SUBSET SectorNames]

\* The three values of the riskPreference ref.
RiskValues == {"aggressive", "balanced", "conservative"}

\* What localStorage may hold under the key 'riskPreference' at startup:
\* nothing, one of the three values, or some other string.
StoredRiskValues == RiskValues \cup {"", "other"}

\* The ways a fetch call can fail: fetch or response.json() throws an Error
\* with or without a message, or the response is not OK and its body does or
\* does not carry a detail.
Failures == {"thrown", "thrownNoMessage", "detail", "noDetail"}

\* The message the catch block stores: data.detail || default for a non-OK
\* response, error.message || 'request failed' for a thrown error.
FailureMessage(default, f) ==
  CASE f = "detail" -> "data.detail"
    [] f = "noDetail" -> default
    [] f = "thrown" -> "error.message"
    [] f = "thrownNoMessage" -> "request failed"

\* Array.from(set) / Set membership on an insertion-ordered Set.
SeqToSet(s) == {s[i] : i \in 1..Len(s)}
Has(s, x) == x \in SeqToSet(s)
\* Set.prototype.delete: the remaining elements keep their order.
Delete(s, x) == SelectSeq(s, LAMBDA y : y # x)
\* s without its i-th element.
RemoveAt(s, i) == [j \in 1..(Len(s) - 1) |-> IF j < i THEN s[j] ELSE s[j + 1]]

\* The requests of the two fetch calls.
ScanRequest == [url |-> "/api/analyze/sectors", body |-> Null]
StocksRequest(sectors, risk) ==
  [url |-> "/api/analyze/stocks",
   body |-> [sectors |-> sectors, risk_preference |-> risk]]

\* The StockRecommendations the backend returns for a request body: it is
\* determined by the sectors and the risk preference asked for.
StocksResponse(body) ==
  [selected_sectors |-> body.sectors, risk_preference |-> body.risk_preference]

(***************************************************************************)
(* State of the AnalysisFlow component.                                    *)
(***************************************************************************)
VARIABLES
  currentStep,          \* ref<1|2|3>
  isLoading,            \* ref(false)
  errorMessage,         \* ref<string|null>, NoMessage or a message
  sectorAnalysis,       \* ref<SectorAnalysis|null>
  selectedSectors,      \* ref<Set<string>>, in insertion order
  stockRecommendations, \* ref<StockRecommendations|null>
  riskPreference,       \* ref('balanced')
  storedRisk,           \* localStorage['riskPreference'], "" when absent
  mounted,              \* the component is mounted (onMounted has run)
  inflight,             \* fetch calls issued and not yet settled, in order
  lastOp                \* the handler or continuation that ran last

(***************************************************************************)
(* State of the portfolio component.  The repository holds two versions    *)
(* of it: the one that keeps the ledger on the backend (part_000, "api")   *)
(* and the one that keeps it in localStorage (second script block of       *)
(* AnalysisFlow.vue, "local").  version says which one runs; it is "none"  *)
(* while only the analysis flow is looked at.                              *)
(***************************************************************************)
VARIABLES
  version,              \* "api" | "local" | "none"
  savedPortfolio,       \* local: localStorage['portfolio'] at startup
  total_capital,        \* portfolio.total_capital
  positions,            \* portfolio.positions
  formData,             \* ref({ts_code, name, quantity, cost_price})
  editingIndex,         \* ref<number|null>; 0 is null, rows count from 1
  isEditing,            \* ref(false)
  pfIsLoading,          \* isLoading of the portfolio component
  pfMounted,            \* onMounted of the portfolio component has run
  cycles,               \* runs of refreshQuotes awaiting a quote
  server,               \* api: the positions the backend holds
  calls,                \* api: runs of savePosition, deletePosition and
                        \* fetchPositions awaiting a response
  alertText             \* the alert() raised by the step just taken

pfVars == <<version, savedPortfolio, total_capital, positions, formData,
            editingIndex, isEditing, pfIsLoading, pfMounted, cycles, server,
            calls, alertText>>

flowVars == <<currentStep, isLoading, errorMessage, sectorAnalysis,
              selectedSectors, stockRecommendations, riskPreference,
              storedRisk, mounted, inflight>>

(***************************************************************************)
(* The diagnosis of the API version of the portfolio component, and the    *)
(* text last typed into its quantity field.                                *)
(***************************************************************************)
VARIABLES
  isDiagnosing,         \* ref(false)
  diagnosisResult,      \* ref<string|null>, the rendered report
  diagnosisRaw,         \* ref<string|null>, the report as received
  diagnoses,            \* runs of diagnosePortfolio awaiting the response
  entered               \* the number last typed into the quantity field

dgVars == <<isDiagnosing, diagnosisResult, diagnosisRaw, diagnoses, entered>>

(***************************************************************************)
(* State of the Dashboard component.  The repository holds two versions of *)
(* it as well: Dashboard.vue, which reloads the market data every 30       *)
(* seconds, and part_001, which reloads it every 30 minutes during trading *)
(* hours.  The clock is the local wall-clock time.                         *)
(***************************************************************************)
VARIABLES
  dashboard,            \* "Dashboard.vue" | "part_001" | "none"
  dashMounted,          \* onMounted of the Dashboard has run
  toast,                \* errorMessage of the Dashboard: ref<{..}|null>
  timers,               \* setTimeout callbacks of showError not yet run
  shown,                \* number of showError calls so far
  isLoadingMarket,      \* ref(false)
  marketIndices,        \* ref<MarketIndex[]>([]), the names of the indices
  marketRequests,       \* runs of loadMarketData awaiting the response
  day, hours, minutes,  \* new Date(): getDay(), getHours(), getMinutes()
  hidden,               \* document.hidden
  marketOpen,           \* what isMarketOpen() returned last
  payload,              \* the data argument of parseApiError
  descriptor            \* what parseApiError returned or threw

\* The stock diagnosis of the Dashboard (runDiagnose), the same in both
\* versions.
VARIABLES
  stockCode,            \* ref(''), v-model of the stock code field
  apiStatus,            \* props.apiStatus: 'connecting'|'connected'|'error'
  isDiagnosingStock,    \* isDiagnosing of the Dashboard: ref(false)
  diagnoseResult,       \* ref<{stock, content, signal}|null>
  runs,                 \* runs of runDiagnose awaiting a response
  requests              \* the requests of runDiagnose and their outcomes

stockVars == <<stockCode, apiStatus, isDiagnosingStock, diagnoseResult, runs,
               requests>>

dbVars == <<dashboard, dashMounted, toast, timers, shown, isLoadingMarket,
            marketIndices, marketRequests, day, hours, minutes, hidden,
            marketOpen, payload, descriptor, stockVars>>

dashRefs == <<dashboard, dashMounted, toast, timers, shown, isLoadingMarket,
              marketIndices, marketRequests, hidden, marketOpen>>
clock == <<day, hours, minutes>>
marketVars == <<isLoadingMarket, marketIndices, marketRequests, hidden,
                marketOpen>>

\* The variables of the parts that the analysis flow and the ledger of the
\* portfolio component leave alone.
otherVars == <<dgVars, dbVars>>

vars == <<currentStep, isLoading, errorMessage, sectorAnalysis, selectedSectors,
          stockRecommendations, riskPreference, storedRisk, mounted, inflight,
          lastOp, pfVars, otherVars>>

\* undefined, for an optional field of a position; a present value v is <<v>>
\* (and a present ratio is the pair <<numerator, denominator>>).
Undefined == <<>>
\* No alert() was raised.
NoAlert == "none"

\* total_capital: 100000 of the initial portfolio ref.
InitialCapital == 100000

\* formData after construction and after resetForm.
EmptyForm == [ts_code |-> "", name |-> "", quantity |-> 100, cost_price |-> 0]

\* The portfolio component before it is created.
PortfolioAbsent ==
  /\ version = "none"
  /\ savedPortfolio = Null
  /\ total_capital = InitialCapital
  /\ positions = <<>>
  /\ formData = EmptyForm
  /\ editingIndex = 0
  /\ isEditing = FALSE
  /\ pfIsLoading = FALSE
  /\ pfMounted = FALSE
  /\ cycles = <<>>
  /\ server = [rows |-> <<>>, nextId |-> 1]
  /\ calls = <<>>
  /\ alertText = NoAlert

\* No report: diagnosisResult and diagnosisRaw are null.
NoReport == "null"

\* The diagnosis and the quantity field after construction.
DiagnosisInit ==
  /\ isDiagnosing = FALSE
  /\ diagnosisResult = NoReport
  /\ diagnosisRaw = NoReport
  /\ diagnoses = <<>>
  /\ entered = 100

\* No alert descriptor and no result: null.
NoToast == [null |-> TRUE]

\* The refs of version v of the Dashboard after construction, the page
\* visible.
DashboardRefs(v) ==
  /\ dashboard = v
  /\ dashMounted = FALSE
  /\ toast = NoToast
  /\ timers = <<>>
  /\ shown = 0
  /\ isLoadingMarket = FALSE
  /\ marketIndices = <<>>
  /\ marketRequests = 0
  /\ hidden = FALSE
  /\ marketOpen = FALSE
  /\ stockCode = ""
  /\ apiStatus = "connecting"
  /\ isDiagnosingStock = FALSE
  /\ diagnoseResult = Null
  /\ runs = <<>>
  /\ requests = <<>>

\* The Dashboard before it is created.
DashboardAbsent ==
  /\ DashboardRefs("none")
  /\ day = 1
  /\ hours = 0
  /\ minutes = 0
  /\ payload = Null
  /\ descriptor = Null

\* The parts outside the analysis flow and the ledger, after construction.
OtherInit == DiagnosisInit /\ DashboardAbsent

flowData == <<currentStep, sectorAnalysis, selectedSectors, stockRecommendations>>

Op(name, arg) == [op |-> name, arg |-> arg, step |-> currentStep]

Init ==
  /\ currentStep = 1
  /\ isLoading = FALSE
  /\ errorMessage = NoMessage
  /\ sectorAnalysis = Null
  /\ selectedSectors = <<>>
  /\ stockRecommendations = Null
  /\ riskPreference = "balanced"
  /\ storedRisk \in StoredRiskValues
  /\ mounted = FALSE
  /\ inflight = <<>>
  /\ lastOp = [op |-> "setup", arg |-> Null, step |-> 1]
  /\ PortfolioAbsent
  /\ OtherInit

(***************************************************************************)
(* Handlers of the script block.  Each is the whole function; the template *)
(* gating is applied separately below.                                     *)
(***************************************************************************)
\* computed(() => selectedSectors.value.size > 0)
hasSelectedSectors == Len(selectedSectors) > 0

\* A variant of onMounted that adopts whatever non-empty string is stored,
\* without the membership test of line 75.
onMounted_AnyStored ==
  /\ ~mounted
  /\ mounted' = TRUE
  /\ riskPreference' = IF storedRisk # "" THEN storedRisk ELSE riskPreference
  /\ lastOp' = Op("onMounted", Null)
  /\ UNCHANGED <<currentStep, isLoading, errorMessage, sectorAnalysis,
                 selectedSectors, stockRecommendations, storedRisk, inflight>>

\* onMounted: adopt the persisted risk preference if it is one of the three.
onMounted ==
  /\ ~mounted
  /\ mounted' = TRUE
  /\ riskPreference' = IF storedRisk # "" /\ storedRisk \in RiskValues
                       THEN storedRisk ELSE riskPreference
  /\ lastOp' = Op("onMounted", Null)
  /\ UNCHANGED <<currentStep, isLoading, errorMessage, sectorAnalysis,
                 selectedSectors, stockRecommendations, storedRisk, inflight>>

setRiskPreference(value) ==
  /\ riskPreference' = value
  /\ storedRisk' = value
  /\ lastOp' = Op("setRiskPreference", value)
  /\ UNCHANGED <<currentStep, isLoading, errorMessage, sectorAnalysis,
                 selectedSectors, stockRecommendations, mounted, inflight>>

\* What the trace keeps of a call toggleSector(name): the name, the selection
\* before the call and, when the call before it was a toggleSector of the
\* same name, the selection before that one (else <<>>).
ToggleTrace(name) ==
  [name |-> name,
   before |-> selectedSectors,
   origin |-> IF lastOp.op = "toggleSector" /\ lastOp.arg.name = name
              THEN <<lastOp.arg.before>> ELSE <<>>]

\* Faulty variant of toggleSector: a selected name is not removed.
toggleSector_NeverRemoves(name) ==
  /\ selectedSectors' = IF Has(selectedSectors, name)
                        THEN selectedSectors
                        ELSE Append(selectedSectors, name)
  /\ lastOp' = Op("toggleSector", ToggleTrace(name))
  /\ UNCHANGED <<currentStep, isLoading, errorMessage, sectorAnalysis,
                 stockRecommendations, riskPreference, storedRisk, mounted,
                 inflight>>

toggleSector(name) ==
  /\ selectedSectors' = IF Has(selectedSectors, name)
                        THEN Delete(selectedSectors, name)
                        ELSE Append(selectedSectors, name)
  /\ lastOp' = Op("toggleSector", ToggleTrace(name))
  /\ UNCHANGED <<currentStep, isLoading, errorMessage, sectorAnalysis,
                 stockRecommendations, riskPreference, storedRisk, mounted,
                 inflight>>

\* analyzeSectors up to its first await: the fetch is issued.
analyzeSectors ==
  /\ isLoading' = TRUE
  /\ errorMessage' = NoMessage
  /\ inflight' = Append(inflight, ScanRequest)
  /\ lastOp' = Op("analyzeSectors", Null)
  /\ UNCHANGED <<currentStep, sectorAnalysis, selectedSectors,
                 stockRecommendations, riskPreference, storedRisk, mounted>>

\* Faulty variant of analyzeSectorsOk: the response body is not stored.
analyzeSectorsOk_NotStored(i, data) ==
  /\ inflight[i] = ScanRequest
  /\ inflight' = RemoveAt(inflight, i)
  /\ currentStep' = 2
  /\ isLoading' = FALSE
  /\ lastOp' = Op("analyzeSectors.ok", data)
  /\ UNCHANGED <<errorMessage, sectorAnalysis, selectedSectors,
                 stockRecommendations, riskPreference, storedRisk, mounted>>

\* analyzeSectors after its awaits, response OK with body data.
analyzeSectorsOk(i, data) ==
  /\ inflight[i] = ScanRequest
  /\ inflight' = RemoveAt(inflight, i)
  /\ sectorAnalysis' = data
  /\ currentStep' = 2
  /\ isLoading' = FALSE
  /\ lastOp' = Op("analyzeSectors.ok", data)
  /\ UNCHANGED <<errorMessage, selectedSectors, stockRecommendations,
                 riskPreference, storedRisk, mounted>>

\* analyzeSectors after its awaits, the call failed in way f: catch, finally.
analyzeSectorsFail(i, f) ==
  /\ inflight[i] = ScanRequest
  /\ inflight' = RemoveAt(inflight, i)
  /\ errorMessage' = FailureMessage("sector analysis failed", f)
  /\ isLoading' = FALSE
  /\ lastOp' = Op("analyzeSectors.fail", f)
  /\ UNCHANGED <<currentStep, sectorAnalysis, selectedSectors,
                 stockRecommendations, riskPreference, storedRisk, mounted>>

\* Faulty variant of recommendStocks: the selection is not validated.
recommendStocks_NoValidation ==
  /\ isLoading' = TRUE
  /\ errorMessage' = NoMessage
  /\ inflight' = Append(inflight,
                        StocksRequest(selectedSectors, riskPreference))
  /\ lastOp' = Op("recommendStocks", "fetch")
  /\ UNCHANGED <<currentStep, sectorAnalysis, selectedSectors,
                 stockRecommendations, riskPreference, storedRisk, mounted>>

\* Faulty variant of recommendStocks: the request carries the default risk
\* preference instead of the current one.
recommendStocks_DefaultRisk ==
  IF ~hasSelectedSectors
  THEN /\ errorMessage' = "select at least one sector"
       /\ lastOp' = Op("recommendStocks", "validation")
       /\ UNCHANGED <<currentStep, isLoading, sectorAnalysis, selectedSectors,
                      stockRecommendations, riskPreference, storedRisk,
                      mounted, inflight>>
  ELSE /\ isLoading' = TRUE
       /\ errorMessage' = NoMessage
       /\ inflight' = Append(inflight,
                             StocksRequest(selectedSectors, "balanced"))
       /\ lastOp' = Op("recommendStocks", "fetch")
       /\ UNCHANGED <<currentStep, sectorAnalysis, selectedSectors,
                      stockRecommendations, riskPreference, storedRisk,
                      mounted>>

\* recommendStocks up to its first await: the validation of the selection,
\* then the fetch with the selection and the risk preference as its body.
recommendStocks ==
  IF ~hasSelectedSectors
  THEN /\ errorMessage' = "select at least one sector"
       /\ lastOp' = Op("recommendStocks", "validation")
       /\ UNCHANGED <<currentStep, isLoading, sectorAnalysis, selectedSectors,
                      stockRecommendations, riskPreference, storedRisk,
                      mounted, inflight>>
  ELSE /\ isLoading' = TRUE
       /\ errorMessage' = NoMessage
       /\ inflight' = Append(inflight,
                             StocksRequest(selectedSectors, riskPreference))
       /\ lastOp' = Op("recommendStocks", "fetch")
       /\ UNCHANGED <<currentStep, sectorAnalysis, selectedSectors,
                      stockRecommendations, riskPreference, storedRisk,
                      mounted>>

\* recommendStocks after its awaits, response OK.
recommendStocksOk(i) ==
  /\ inflight[i] # ScanRequest
  /\ inflight' = RemoveAt(inflight, i)
  /\ stockRecommendations' = StocksResponse(inflight[i].body)
  /\ currentStep' = 3
  /\ isLoading' = FALSE
  /\ lastOp' = Op("recommendStocks.ok", inflight[i].body)
  /\ UNCHANGED <<errorMessage, sectorAnalysis, selectedSectors,
                 riskPreference, storedRisk, mounted>>

\* Faulty variant of recommendStocksFail: a failure sends the flow back to
\* step 1.
recommendStocksFail_BackToStart(i, f) ==
  /\ inflight[i] # ScanRequest
  /\ inflight' = RemoveAt(inflight, i)
  /\ errorMessage' = FailureMessage("stock recommendation failed", f)
  /\ isLoading' = FALSE
  /\ currentStep' = 1
  /\ lastOp' = Op("recommendStocks.fail", f)
  /\ UNCHANGED <<sectorAnalysis, selectedSectors, stockRecommendations,
                 riskPreference, storedRisk, mounted>>

\* recommendStocks after its awaits, the call failed in way f.
recommendStocksFail(i, f) ==
  /\ inflight[i] # ScanRequest
  /\ inflight' = RemoveAt(inflight, i)
  /\ errorMessage' = FailureMessage("stock recommendation failed", f)
  /\ isLoading' = FALSE
  /\ lastOp' = Op("recommendStocks.fail", f)
  /\ UNCHANGED <<currentStep, sectorAnalysis, selectedSectors,
                 stockRecommendations, riskPreference, storedRisk, mounted>>

\* Faulty variant of resetFlow: stockRecommendations is not cleared.
resetFlow_KeepsRecommendations ==
  /\ currentStep' = 1
  /\ sectorAnalysis' = Null
  /\ selectedSectors' = <<>>
  /\ errorMessage' = NoMessage
  /\ lastOp' = Op("resetFlow", Null)
  /\ UNCHANGED <<isLoading, stockRecommendations, riskPreference, storedRisk,
                 mounted, inflight>>

resetFlow ==
  /\ currentStep' = 1
  /\ sectorAnalysis' = Null
  /\ selectedSectors' = <<>>
  /\ stockRecommendations' = Null
  /\ errorMessage' = NoMessage
  /\ lastOp' = Op("resetFlow", Null)
  /\ UNCHANGED <<isLoading, riskPreference, storedRisk, mounted, inflight>>

\* Faulty variant of goBack: leaving step 3 also clears the selection.
goBack_ClearsSelection ==
  /\ lastOp' = Op("goBack", Null)
  /\ UNCHANGED <<isLoading, errorMessage, riskPreference, storedRisk, mounted,
                 inflight>>
  /\ CASE currentStep = 3 ->
            /\ currentStep' = 2
            /\ stockRecommendations' = Null
            /\ selectedSectors' = <<>>
            /\ UNCHANGED sectorAnalysis
       [] currentStep = 2 ->
            /\ currentStep' = 1
            /\ sectorAnalysis' = Null
            /\ selectedSectors' = <<>>
            /\ UNCHANGED stockRecommendations
       [] OTHER -> UNCHANGED flowData

\* Faulty variant of goBack: leaving step 2 keeps the selection.
goBack_KeepsSelection ==
  /\ lastOp' = Op("goBack", Null)
  /\ UNCHANGED <<isLoading, errorMessage, riskPreference, storedRisk, mounted,
                 inflight>>
  /\ CASE currentStep = 3 ->
            /\ currentStep' = 2
            /\ stockRecommendations' = Null
            /\ UNCHANGED <<sectorAnalysis, selectedSectors>>
       [] currentStep = 2 ->
            /\ currentStep' = 1
            /\ sectorAnalysis' = Null
            /\ UNCHANGED <<selectedSectors, stockRecommendations>>
       [] OTHER -> UNCHANGED flowData

goBack ==
  /\ lastOp' = Op("goBack", Null)
  /\ UNCHANGED <<isLoading, errorMessage, riskPreference, storedRisk, mounted,
                 inflight>>
  /\ CASE currentStep = 3 ->
            /\ currentStep' = 2
            /\ stockRecommendations' = Null
            /\ UNCHANGED <<sectorAnalysis, selectedSectors>>
       [] currentStep = 2 ->
            /\ currentStep' = 1
            /\ sectorAnalysis' = Null
            /\ selectedSectors' = <<>>
            /\ UNCHANGED stockRecommendations
       [] OTHER -> UNCHANGED flowData

\* The close button of the error alert: @click="errorMessage = null".
closeError ==
  /\ errorMessage' = NoMessage
  /\ lastOp' = Op("closeError", Null)
  /\ UNCHANGED <<currentStep, isLoading, sectorAnalysis, selectedSectors,
                 stockRecommendations, riskPreference, storedRisk, mounted,
                 inflight>>

(***************************************************************************)
(* What the template renders and enables.                                  *)
(***************************************************************************)
ErrorAlertRendered == errorMessage # NoMessage
Step1Rendered == currentStep = 1
StartButtonEnabled == Step1Rendered /\ ~isLoading
Step2Rendered == currentStep = 2 /\ sectorAnalysis # Null
SectorCardRendered(name) == Step2Rendered /\ name \in sectorAnalysis.sectors
\* Faulty variant of RecommendButtonEnabled: :disabled ignores isLoading.
RecommendButtonEnabled_IgnoresLoading == Step2Rendered /\ hasSelectedSectors

RecommendButtonEnabled == Step2Rendered /\ ~(~hasSelectedSectors \/ isLoading)
Step3Rendered == currentStep = 3 /\ stockRecommendations # Null
BackButtonRendered == Step2Rendered \/ Step3Rendered
ResetButtonRendered == Step3Rendered

(***************************************************************************)
(* The component as the user drives it: a handler runs when its control is *)
(* rendered and enabled; a pending fetch settles at any time.              *)
(***************************************************************************)
Mount == onMounted /\ UNCHANGED <<pfVars, otherVars>>

ClickRiskOption == \E v \in RiskValues :
  mounted /\ Step1Rendered /\ setRiskPreference(v) /\ UNCHANGED <<pfVars, otherVars>>

ClickStart ==
  /\ mounted /\ StartButtonEnabled /\ Len(inflight) < MaxInflight
  /\ analyzeSectors /\ UNCHANGED <<pfVars, otherVars>>

ClickSectorCard == \E name \in SectorNames :
  mounted /\ SectorCardRendered(name) /\ toggleSector(name)
  /\ UNCHANGED <<pfVars, otherVars>>

ClickRecommend ==
  /\ mounted /\ RecommendButtonEnabled /\ Len(inflight) < MaxInflight
  /\ recommendStocks /\ UNCHANGED <<pfVars, otherVars>>

ClickBack == mounted /\ BackButtonRendered /\ goBack /\ UNCHANGED <<pfVars, otherVars>>

ClickReset ==
  mounted /\ ResetButtonRendered /\ resetFlow /\ UNCHANGED <<pfVars, otherVars>>

ClickCloseError ==
  mounted /\ ErrorAlertRendered /\ closeError /\ UNCHANGED <<pfVars, otherVars>>

ScanResolves == \E i \in 1..Len(inflight), data \in SectorAnalyses :
  analyzeSectorsOk(i, data) /\ UNCHANGED <<pfVars, otherVars>>

ScanRejects == \E i \in 1..Len(inflight), f \in Failures :
  analyzeSectorsFail(i, f) /\ UNCHANGED <<pfVars, otherVars>>

StocksResolves == \E i \in 1..Len(inflight) :
  recommendStocksOk(i) /\ UNCHANGED <<pfVars, otherVars>>

StocksRejects == \E i \in 1..Len(inflight), f \in Failures :
  recommendStocksFail(i, f) /\ UNCHANGED <<pfVars, otherVars>>

Next ==
  \/ Mount
  \/ ClickRiskOption
  \/ ClickStart
  \/ ClickSectorCard
  \/ ClickRecommend
  \/ ClickBack
  \/ ClickReset
  \/ ClickCloseError
  \/ ScanResolves
  \/ ScanRejects
  \/ StocksResolves
  \/ StocksRejects

Spec == Init /\ [][Next]_vars

(***************************************************************************)
(* The same component with two of its functions also called directly, in   *)
(* any state in which no request is pending: recommendStocks without the   *)
(* :disabled of its button, resetFlow without the v-if of its block.       *)
(***************************************************************************)
CallRecommendStocks ==
  /\ mounted /\ ~isLoading /\ Len(inflight) < MaxInflight
  /\ recommendStocks /\ UNCHANGED <<pfVars, otherVars>>

CallResetFlow == mounted /\ resetFlow /\ UNCHANGED <<pfVars, otherVars>>

NextCalls ==
  \/ Mount
  \/ ClickRiskOption
  \/ ClickStart
  \/ ClickSectorCard
  \/ ClickRecommend
  \/ ClickBack
  \/ ClickReset
  \/ ClickCloseError
  \/ ScanResolves
  \/ ScanRejects
  \/ StocksResolves
  \/ StocksRejects
  \/ CallRecommendStocks
  \/ CallResetFlow

SpecCalls == Init /\ [][NextCalls]_vars

(***************************************************************************)
(* The same component with toggleSector also called directly in step 2,    *)
(* with any sector name and not only the names of the rendered cards.      *)
(***************************************************************************)
CallToggleSector == \E name \in SectorNames :
  mounted /\ currentStep = 2 /\ toggleSector(name) /\ UNCHANGED <<pfVars, otherVars>>

NextToggle ==
  \/ Mount
  \/ ClickRiskOption
  \/ ClickStart
  \/ ClickSectorCard
  \/ ClickRecommend
  \/ ClickBack
  \/ ClickReset
  \/ ClickCloseError
  \/ ScanResolves
  \/ ScanRejects
  \/ StocksResolves
  \/ StocksRejects
  \/ CallToggleSector

SpecToggle == Init /\ [][NextToggle]_vars

(***************************************************************************)
(* Properties of the analysis flow.                                        *)
(***************************************************************************)

\* C1: when the scan started in Start succeeds, the returned SectorAnalysis
\* is the current one, the selection is empty and the step is 2 (Selecting).
C1_ScanSuccess ==
  (lastOp.op = "analyzeSectors.ok" /\ lastOp.step = 1) =>
    /\ sectorAnalysis = lastOp.arg
    /\ selectedSectors = <<>>
    /\ currentStep = 2

\* A scan that returned a non-empty analysis has just succeeded from Start.
C1_Witness ==
  /\ lastOp.op = "analyzeSectors.ok"
  /\ lastOp.step = 1
  /\ lastOp.arg.sectors = {1, 2}
  /\ currentStep = 2

\* C2: the failure handling of analyzeSectors and of recommendStocks changes
\* none of currentStep, sectorAnalysis, selectedSectors, stockRecommendations
\* (nor issues a request); it stores a message and clears the busy flag.
C2_FailureKeepsState ==
  [][lastOp'.op \in {"analyzeSectors.fail", "recommendStocks.fail"} =>
       /\ UNCHANGED flowData
       /\ Len(inflight') < Len(inflight)
       /\ errorMessage' # NoMessage
       /\ isLoading' = FALSE]_vars

\* A recommend request has just failed with a selection and an analysis held.
C2_Witness ==
  /\ lastOp.op = "recommendStocks.fail"
  /\ currentStep = 2
  /\ sectorAnalysis # Null
  /\ selectedSectors # <<>>
  /\ errorMessage # NoMessage
  /\ ~isLoading

\* C3: recommendStocks called with an empty selection issues no request,
\* stores the validation message and leaves currentStep, sectorAnalysis,
\* selectedSectors and stockRecommendations (and the busy flag) unchanged.
C3_EmptySelectionRejected ==
  [][(lastOp'.op = "recommendStocks" /\ selectedSectors = <<>>) =>
       /\ inflight' = inflight
       /\ errorMessage' = "select at least one sector"
       /\ UNCHANGED flowData
       /\ UNCHANGED isLoading]_vars

\* recommendStocks has just been called in Selecting with nothing selected.
C3_Witness ==
  /\ lastOp.op = "recommendStocks"
  /\ lastOp.step = 2
  /\ sectorAnalysis # Null
  /\ selectedSectors = <<>>
  /\ errorMessage = "select at least one sector"
  /\ inflight = <<>>

\* C4: a call of recommendStocks with a non-empty selection issues exactly
\* one request, to the recommend endpoint, whose sectors are exactly the
\* selected names (each once) and whose risk_preference is the current one.
C4_OneRequestWithSelection ==
  [][(lastOp'.op = "recommendStocks" /\ selectedSectors # <<>>) =>
       /\ Len(inflight') = Len(inflight) + 1
       /\ SubSeq(inflight', 1, Len(inflight)) = inflight
       /\ LET req == inflight'[Len(inflight')] IN
            /\ req.url = "/api/analyze/stocks"
            /\ SeqToSet(req.body.sectors) = SeqToSet(selectedSectors)
            /\ Len(req.body.sectors) = Cardinality(SeqToSet(selectedSectors))
            /\ req.body.risk_preference = riskPreference]_vars

\* A recommend request for two sectors and a non-default risk preference has
\* just been issued.
C4_Witness ==
  /\ lastOp.op = "recommendStocks"
  /\ Len(inflight) = 1
  /\ inflight[1].url = "/api/analyze/stocks"
  /\ Len(inflight[1].body.sectors) = 2
  /\ inflight[1].body.risk_preference = "aggressive"

\* C5: at most one scan or recommend request is pending, the busy flag is
\* set while one is, and while it is set neither the start button nor the
\* recommend button can start another request.
C5_SingleInflight ==
  /\ Len(inflight) <= 1
  /\ inflight # <<>> => isLoading
  /\ isLoading => ~ENABLED ClickStart /\ ~ENABLED ClickRecommend

\* A recommend request is pending in Selecting with a selection held.
C5_Witness ==
  /\ Len(inflight) = 1
  /\ inflight[1].url = "/api/analyze/stocks"
  /\ isLoading
  /\ currentStep = 2
  /\ selectedSectors # <<>>

\* C6: currentStep changes only 1 -> 2 by a successful scan, 2 -> 3 by a
\* successful recommend, 3 -> 2 and 2 -> 1 by goBack, or to 1 by resetFlow;
\* in particular it never moves from 1 to 3.
C6_StepTransitions ==
  [][currentStep' # currentStep =>
       \/ currentStep = 1 /\ currentStep' = 2 /\ lastOp'.op = "analyzeSectors.ok"
       \/ currentStep = 2 /\ currentStep' = 3 /\ lastOp'.op = "recommendStocks.ok"
       \/ currentStep = 3 /\ currentStep' = 2 /\ lastOp'.op = "goBack"
       \/ currentStep = 2 /\ currentStep' = 1 /\ lastOp'.op = "goBack"
       \/ currentStep' = 1 /\ lastOp'.op = "resetFlow"]_vars

\* C7: in every reachable state outside Start a control that leads back to
\* Start (the back button or the reset button) is available.
C7_NoTerminalState ==
  mounted => \/ currentStep = 1
             \/ ENABLED ClickBack
             \/ ENABLED ClickReset

\* C8: goBack from step 3 goes to step 2, drops stockRecommendations and
\* keeps selectedSectors and sectorAnalysis; from step 2 it goes to step 1,
\* drops sectorAnalysis and selectedSectors and touches nothing else of the
\* flow data.
C8_GoBackOneStep ==
  [][lastOp'.op = "goBack" =>
       /\ currentStep = 3 =>
            /\ currentStep' = 2
            /\ stockRecommendations' = Null
            /\ UNCHANGED <<selectedSectors, sectorAnalysis>>
       /\ currentStep = 2 =>
            /\ currentStep' = 1
            /\ sectorAnalysis' = Null
            /\ selectedSectors' = <<>>
            /\ UNCHANGED stockRecommendations]_vars

\* goBack has just left step 3 with the selection and the analysis kept.
C8_Witness ==
  /\ lastOp.op = "goBack"
  /\ lastOp.step = 3
  /\ currentStep = 2
  /\ stockRecommendations = Null
  /\ Len(selectedSectors) = 2
  /\ sectorAnalysis # Null

\* C9: whatever the state resetFlow is invoked in, it leaves step 1 with no
\* SectorAnalysis, an empty selection and no StockRecommendations.
C9_ResetClearsAll ==
  lastOp.op = "resetFlow" =>
    /\ currentStep = 1
    /\ sectorAnalysis = Null
    /\ selectedSectors = <<>>
    /\ stockRecommendations = Null

\* resetFlow has just run in Selecting while a recommend request is pending.
C9_Witness ==
  /\ lastOp.op = "resetFlow"
  /\ lastOp.step = 2
  /\ Len(inflight) = 1
  /\ isLoading
  /\ currentStep = 1

\* C10: the selection is a subset of the sector names of the current
\* SectorAnalysis, and is empty when there is none.
C10_SelectionWithinAnalysis ==
  IF sectorAnalysis = Null
  THEN selectedSectors = <<>>
  ELSE SeqToSet(selectedSectors) \subseteq sectorAnalysis.sectors

\* Two of the sectors of a three-sector analysis are selected.
C10_Witness ==
  /\ sectorAnalysis # Null
  /\ sectorAnalysis.sectors = {1, 2, 3}
  /\ selectedSectors = <<3, 1>>

\* C11: toggling the same name twice in a row gives back the selection (as
\* a set of names) that was held before the first of the two calls.
C11_DoubleToggle ==
  (lastOp.op = "toggleSector" /\ lastOp.arg.origin # <<>>) =>
    SeqToSet(selectedSectors) = SeqToSet(lastOp.arg.origin[1])

\* A selected name of a two-name selection has just been toggled twice: the
\* names are the same again, in another insertion order.
C11_Witness ==
  /\ lastOp.op = "toggleSector"
  /\ lastOp.arg.origin = <<(<<1, 2>>)>>
  /\ lastOp.arg.name = 1
  /\ selectedSectors = <<2, 1>>

\* C12: toggleSector(name) with a name that is not a sector of the current
\* SectorAnalysis leaves the selection unchanged.
C12_UnknownNameNoOp ==
  [][(/\ lastOp'.op = "toggleSector"
      /\ \/ sectorAnalysis = Null
         \/ lastOp'.arg.name \notin sectorAnalysis.sectors) =>
       UNCHANGED selectedSectors]_vars

(***************************************************************************)
(* The portfolio component: values.                                        *)
(***************************************************************************)

\* Longest ledger the add button is followed on, and most refresh cycles and
\* backend calls followed at a time.
MaxPositions == 1
MaxCycles == 2
MaxCalls == 1

\* toUpperCase on the stock codes of the model: it maps the lower-case
\* spelling to the upper-case one and leaves the others alone.
ToUpperCase(code) == IF code = "600519.sh" THEN "600519.SH" ELSE code

\* An empty array slot, left by an assignment past the end of the array.
Hole == [hole |-> TRUE]

\* JavaScript truthiness of an optional number: undefined and 0 are falsy.
Truthy(opt) == opt # Undefined /\ opt[1] # 0

\* The number n / d, d # 0, as the pair <<numerator, denominator>> in lowest
\* terms with a positive denominator, so that equal numbers are equal pairs.
RECURSIVE GCD(_, _)
GCD(a, b) == IF b = 0 THEN a ELSE GCD(b, a % b)
Abs(n) == IF n < 0 THEN 0 - n ELSE n
Ratio(n, d) ==
  LET g == GCD(Abs(n), Abs(d))
      sign == IF d < 0 THEN 0 - 1 ELSE 1
  IN <<(sign * n) \div g, (sign * d) \div g>>

\* The object savePosition builds from the form: the static fields only.
\* The API version sends the same four fields as the request body.
PositionData(form) ==
  [ts_code |-> ToUpperCase(form.ts_code),
   name |-> IF form.name # "" THEN form.name ELSE form.ts_code,
   quantity |-> form.quantity,
   cost_price |-> form.cost_price]

\* A position object with the given id and static fields and no derived field.
NewPosition(id, data) ==
  [id |-> id, ts_code |-> data.ts_code, name |-> data.name,
   quantity |-> data.quantity, cost_price |-> data.cost_price,
   current_price |-> Undefined, profit |-> Undefined,
   profit_pct |-> Undefined, weight |-> Undefined]

\* pos.weight as updateWeights computes it: (value / total) * 100, else 0.
Weight(pos, total) ==
  IF total > 0 THEN Ratio(pos.quantity * pos.cost_price * 100, total)
  ELSE Ratio(0, 1)

\* Index of the first empty slot of an array, 0 when it has none.
FirstHole(ps) ==
  IF \E i \in 1..Len(ps) : ps[i] = Hole
  THEN CHOOSE i \in 1..Len(ps) :
         ps[i] = Hole /\ \A j \in 1..(i - 1) : ps[j] # Hole
  ELSE 0

\* updateWeights on the array ps with total capital total: every position
\* gets its weight; the loop stops with a TypeError at an empty slot.
updateWeights(ps, total) ==
  [i \in 1..Len(ps) |->
     IF FirstHole(ps) = 0 \/ i < FirstHole(ps)
     THEN [ps[i] EXCEPT !.weight = Weight(ps[i], total)]
     ELSE ps[i]]

\* What the quote endpoint can answer for one position: the fetch throws,
\* the response is not ok, the body has no success flag or no data, or the
\* body carries a price (possibly 0 or missing) and a name (empty in the
\* answers followed here).
QuoteFailures == {"thrown", "notOk", "noData"}
Quotes == { [price |-> <<12>>, name |-> ""],
            [price |-> <<0>>, name |-> ""],
            [price |-> Undefined, name |-> ""] }

\* ApplyQuote with current_price ?? cost_price for the price the profit is
\* computed from.
ApplyQuote_NullishFallback(pos, q) ==
  LET currentPrice == IF q.price # Undefined THEN q.price[1]
                      ELSE pos.cost_price
  IN [pos EXCEPT
        !.current_price = q.price,
        !.name = IF q.name # "" THEN q.name ELSE pos.name,
        !.profit = <<(currentPrice - pos.cost_price) * pos.quantity>>,
        !.profit_pct = IF pos.cost_price > 0
                       THEN Ratio((currentPrice - pos.cost_price) * 100,
                                  pos.cost_price)
                       ELSE Ratio(0, 1)]

\* The body of the success branch of refreshQuotes for one position.
ApplyQuote(pos, q) ==
  LET currentPrice == IF Truthy(q.price) THEN q.price[1] ELSE pos.cost_price
  IN [pos EXCEPT
        !.current_price = q.price,
        !.name = IF q.name # "" THEN q.name ELSE pos.name,
        !.profit = <<(currentPrice - pos.cost_price) * pos.quantity>>,
        !.profit_pct = IF pos.cost_price > 0
                       THEN Ratio((currentPrice - pos.cost_price) * 100,
                                  pos.cost_price)
                       ELSE Ratio(0, 1)]

\* ValidationAlert without the multiple-of-100 test.
ValidationAlert_AnyPositiveQuantity(form) ==
  IF form.ts_code = "" THEN "alert: ts_code"
  ELSE IF form.quantity <= 0 THEN "alert: quantity"
  ELSE IF form.cost_price <= 0 THEN "alert: cost_price"
  ELSE NoAlert

\* The alert savePosition raises for a form it rejects, named here by the
\* field the message is about, and NoAlert for a form it accepts.
ValidationAlert(form) ==
  IF form.ts_code = "" THEN "alert: ts_code"
  ELSE IF form.quantity <= 0 \/ form.quantity % 100 # 0
       THEN "alert: quantity"
  ELSE IF form.cost_price <= 0 THEN "alert: cost_price"
  ELSE NoAlert

\* Forms the user fills in: two that pass validation and one for each way of
\* failing it.
Drafts ==
  { [ts_code |-> "600519.sh", name |-> "", quantity |-> 100, cost_price |-> 10],
    [ts_code |-> "000001.SZ", name |-> "PAB", quantity |-> 200, cost_price |-> 10],
    [ts_code |-> "", name |-> "", quantity |-> 100, cost_price |-> 10],
    [ts_code |-> "000001.SZ", name |-> "PAB", quantity |-> 150, cost_price |-> 10],
    [ts_code |-> "600519.sh", name |-> "", quantity |-> 0, cost_price |-> 10],
    [ts_code |-> "000001.SZ", name |-> "PAB", quantity |-> 200, cost_price |-> 0] }

\* Amounts typed into the total capital field.
CapitalInputs == {0, -10000}

\* What localStorage holds under 'portfolio' when the component starts:
\* nothing, or a portfolio of two positions that the component saved.
SavedPortfolios ==
  { Null,
    [total_capital |-> 50000,
     positions |->
       <<[NewPosition(Undefined,
                      [ts_code |-> "600519.SH", name |-> "600519.sh",
                       quantity |-> 100, cost_price |-> 10])
            EXCEPT !.weight = Ratio(100 * 10 * 100, 50000)],
         [NewPosition(Undefined,
                      [ts_code |-> "000001.SZ", name |-> "PAB",
                       quantity |-> 200, cost_price |-> 10])
            EXCEPT !.weight = Ratio(200 * 10 * 100, 50000)]>>] }

(***************************************************************************)
(* The portfolio component: refresh cycles.                                *)
(*                                                                         *)
(* A run of refreshQuotes that awaits a quote is a record: idx is the      *)
(* place of the array iterator, live says whether the array it walks is    *)
(* still portfolio.positions, cur is the place in portfolio.positions of   *)
(* the object whose quote is awaited (0 when that object is no longer in   *)
(* the ledger), rest counts the elements left in an array that is not the  *)
(* ledger any more.                                                        *)
(***************************************************************************)

\* refreshQuotes up to its first await, called when the ledger is ps and the
\* runs in flight are cys.
StartRefresh(ps, cys) ==
  IF Len(ps) = 0
  THEN pfIsLoading' = pfIsLoading /\ cycles' = cys
  ELSE IF ps[1] = Hole
  THEN pfIsLoading' = FALSE /\ cycles' = cys
  ELSE /\ pfIsLoading' = TRUE
       /\ cycles' = Append(cys, [live |-> TRUE, idx |-> 1, cur |-> 1,
                                 rest |-> 0])

\* The runs in flight after splice(j, 1) on the ledger array.
AfterSplice(cys, j) ==
  [c \in 1..Len(cys) |->
     IF cys[c].live
     THEN [cys[c] EXCEPT !.cur = IF @ = j THEN 0
                                 ELSE IF @ > j THEN @ - 1 ELSE @]
     ELSE cys[c]]

\* The runs in flight after the object at place j is replaced by another.
AfterReplace(cys, j) ==
  [c \in 1..Len(cys) |->
     IF cys[c].live /\ cys[c].cur = j THEN [cys[c] EXCEPT !.cur = 0]
     ELSE cys[c]]

\* The runs in flight after portfolio.positions is assigned a new array of
\* new objects while the ledger held n positions.
AfterReload(cys, n) ==
  [c \in 1..Len(cys) |->
     IF cys[c].live
     THEN [cys[c] EXCEPT !.live = FALSE, !.cur = 0, !.rest = n - cys[c].idx]
     ELSE cys[c]]

\* The loop of refreshQuotes after the await of run c, the ledger being ps:
\* the next element is fetched, or the loop is over and updateWeights runs,
\* or the next element is an empty slot and the TypeError leaves the loop
\* through the finally block.
CycleContinues(c, ps) ==
  LET cy == cycles[c] IN
  IF cy.live /\ cy.idx + 1 <= Len(ps) /\ ps[cy.idx + 1] # Hole
  THEN /\ positions' = ps
       /\ cycles' = [cycles EXCEPT ![c] = [cy EXCEPT !.idx = cy.idx + 1,
                                                    !.cur = cy.idx + 1]]
       /\ UNCHANGED pfIsLoading
  ELSE IF ~cy.live /\ cy.rest > 0
  THEN /\ positions' = ps
       /\ cycles' = [cycles EXCEPT ![c] = [cy EXCEPT !.rest = cy.rest - 1]]
       /\ UNCHANGED pfIsLoading
  ELSE /\ positions' = IF cy.live /\ cy.idx + 1 <= Len(ps)
                       THEN ps
                       ELSE updateWeights(ps, total_capital)
       /\ cycles' = RemoveAt(cycles, c)
       /\ pfIsLoading' = FALSE

\* refreshQuotes, from the click or the call to the first await.
refreshQuotes ==
  /\ StartRefresh(positions, cycles)
  /\ alertText' = NoAlert
  /\ lastOp' = Op("refreshQuotes", Null)
  /\ UNCHANGED <<version, savedPortfolio, total_capital, positions, formData,
                 editingIndex, isEditing, pfMounted, server, calls, flowVars, otherVars>>

\* refreshQuotes: the quote awaited by run c arrives with data q.
refreshQuotesOk(c, q) ==
  LET cur == cycles[c].cur IN
  /\ CycleContinues(c, IF cur # 0
                       THEN [positions EXCEPT ![cur] = ApplyQuote(@, q)]
                       ELSE positions)
  /\ alertText' = NoAlert
  /\ lastOp' = Op("refreshQuotes.ok", Null)
  /\ UNCHANGED <<version, savedPortfolio, total_capital, formData,
                 editingIndex, isEditing, pfMounted, server, calls, flowVars, otherVars>>

\* refreshQuotesFail with the failure leaving the loop, as if the try/catch
\* were around the loop and not inside it.
refreshQuotesFail_AbortsCycle(c, f) ==
  /\ cycles' = RemoveAt(cycles, c)
  /\ pfIsLoading' = FALSE
  /\ alertText' = NoAlert
  /\ lastOp' = Op("refreshQuotes.fail", Null)
  /\ UNCHANGED <<version, savedPortfolio, total_capital, positions, formData,
                 editingIndex, isEditing, pfMounted, server, calls, flowVars, otherVars>>

\* refreshQuotes: the fetch of run c throws, or answers without data.
refreshQuotesFail(c, f) ==
  /\ CycleContinues(c, positions)
  /\ alertText' = NoAlert
  /\ lastOp' = Op("refreshQuotes.fail", Null)
  /\ UNCHANGED <<version, savedPortfolio, total_capital, formData,
                 editingIndex, isEditing, pfMounted, server, calls, flowVars, otherVars>>

(***************************************************************************)
(* The portfolio component: the form, the ledger and the backend calls.    *)
(***************************************************************************)

\* Math.round(q / 100) * 100 for a positive integer q.
RoundToHundred(q) == ((q + 50) \div 100) * 100

\* validateQuantity, as a function of the draft quantity.
validateQuantity(q) ==
  IF q < 100 THEN 100
  ELSE IF q % 100 # 0 THEN RoundToHundred(q)
  ELSE q

\* parseInt(value) || 100 of the quantity field's change handler.
ParseQuantity(q) == IF q = 0 THEN 100 ELSE q

\* The state resetForm leaves the form in.
FormReset ==
  /\ formData' = EmptyForm
  /\ editingIndex' = 0
  /\ isEditing' = FALSE

\* ps with x assigned at place k: a place past the end grows the array and
\* leaves empty slots in between.
AssignAt(ps, k, x) ==
  [i \in 1..(IF k > Len(ps) THEN k ELSE Len(ps)) |->
     IF i = k THEN x ELSE IF i <= Len(ps) THEN ps[i] ELSE Hole]

\* The rows of the backend as GET /api/portfolio returns them.
ListPositions(srv) ==
  [i \in 1..Len(srv.rows) |-> NewPosition(<<srv.rows[i].id>>, srv.rows[i])]

\* The backend after createPosition, updatePosition and deletePosition.
CreatePosition(srv, data) ==
  [rows |-> Append(srv.rows, [id |-> srv.nextId, ts_code |-> data.ts_code,
                              name |-> data.name, quantity |-> data.quantity,
                              cost_price |-> data.cost_price]),
   nextId |-> srv.nextId + 1]
UpdatePosition(srv, id, data) ==
  [srv EXCEPT !.rows =
     [i \in 1..Len(srv.rows) |->
        IF srv.rows[i].id = id
        THEN [id |-> id, ts_code |-> data.ts_code, name |-> data.name,
              quantity |-> data.quantity, cost_price |-> data.cost_price]
        ELSE srv.rows[i]]]
DeletePosition(srv, id) ==
  [srv EXCEPT !.rows = SelectSeq(srv.rows, LAMBDA r : r.id # id)]

\* A run of fn ("mount", "save" or "delete") awaiting the answer to a
\* request; id and body are those of the request.
Call(fn, method, id, body) ==
  [fn |-> fn, method |-> method, id |-> id, body |-> body]

\* What a request to the backend can do: succeed, answer with an error
\* status or an error body, or throw.
CallOutcomes == {"ok", "httpError", "thrown"}

\* The form fields as the user sets them.  The localStorage version binds
\* the four fields with v-model; the API version binds ts_code, keeps name
\* read-only and passes quantity through parseInt(..) || 100 and
\* validateQuantity.
fillForm(draft) ==
  /\ formData' = IF version = "local" THEN draft
                 ELSE [ts_code |-> draft.ts_code,
                       name |-> formData.name,
                       quantity |-> validateQuantity(ParseQuantity(draft.quantity)),
                       cost_price |-> draft.cost_price]
  /\ formData' # formData
  /\ alertText' = NoAlert
  /\ lastOp' = Op("input", Null)
  /\ UNCHANGED <<version, savedPortfolio, total_capital, positions,
                 editingIndex, isEditing, pfIsLoading, pfMounted, cycles,
                 server, calls, flowVars, otherVars>>

\* The total capital field: v-model.number assigns the typed number.
setTotalCapital(amount) ==
  /\ total_capital' = amount
  /\ total_capital' # total_capital
  /\ alertText' = NoAlert
  /\ lastOp' = Op("input", Null)
  /\ UNCHANGED <<version, savedPortfolio, positions, formData, editingIndex,
                 isEditing, pfIsLoading, pfMounted, cycles, server, calls,
                 flowVars, otherVars>>

\* onMounted of the portfolio component.  localStorage version: load the
\* saved portfolio, then refreshQuotes().  API version: fetchPositions().
portfolioOnMounted ==
  /\ ~pfMounted
  /\ pfMounted' = TRUE
  /\ alertText' = NoAlert
  /\ lastOp' = Op("onMounted", Null)
  /\ IF version = "local"
     THEN LET loaded == IF savedPortfolio = Null
                        THEN [total_capital |-> total_capital,
                              positions |-> positions]
                        ELSE savedPortfolio
          IN /\ total_capital' = loaded.total_capital
             /\ positions' = loaded.positions
             /\ StartRefresh(loaded.positions, cycles)
             /\ UNCHANGED calls
     ELSE /\ calls' = Append(calls, Call("mount", "GET", 0, Null))
          /\ UNCHANGED <<total_capital, positions, pfIsLoading, cycles>>
  /\ UNCHANGED <<version, savedPortfolio, formData, editingIndex, isEditing,
                 server, flowVars, otherVars>>

\* editPosition(index); rows count from 1 here.
editPosition(index) ==
  /\ IF index > Len(positions) \/ positions[index] = Hole
     THEN UNCHANGED <<formData, editingIndex, isEditing>>
     ELSE /\ formData' = [ts_code |-> positions[index].ts_code,
                          name |-> positions[index].name,
                          quantity |-> positions[index].quantity,
                          cost_price |-> positions[index].cost_price]
          /\ editingIndex' = index
          /\ isEditing' = TRUE
  /\ alertText' = NoAlert
  /\ lastOp' = Op("input", Null)
  /\ UNCHANGED <<version, savedPortfolio, total_capital, positions,
                 pfIsLoading, pfMounted, cycles, server, calls, flowVars, otherVars>>

\* resetForm, from the cancel button.
resetForm ==
  /\ FormReset
  /\ alertText' = NoAlert
  /\ lastOp' = Op("input", Null)
  /\ UNCHANGED <<version, savedPortfolio, total_capital, positions,
                 pfIsLoading, pfMounted, cycles, server, calls, flowVars, otherVars>>

\* The alerts of the catch blocks of savePosition and deletePosition.
SaveFailed == "alert: save failed"
DeleteFailed == "alert: delete failed"

\* savePosition, up to its first await in the API version.
savePosition ==
  LET rejected == ValidationAlert(formData)
      data == PositionData(formData)
      position == NewPosition(Undefined, data)
  IN
  /\ lastOp' = Op("savePosition", Null)
  /\ UNCHANGED <<version, savedPortfolio, total_capital, pfIsLoading,
                 pfMounted, server, flowVars, otherVars>>
  /\ IF rejected # NoAlert
     THEN /\ alertText' = rejected
          /\ UNCHANGED <<positions, formData, editingIndex, isEditing, cycles,
                         calls>>
     ELSE IF version = "local"
     THEN /\ positions' =
               updateWeights(IF editingIndex # 0
                             THEN AssignAt(positions, editingIndex, position)
                             ELSE Append(positions, position),
                             total_capital)
          /\ cycles' = IF editingIndex # 0
                       THEN AfterReplace(cycles, editingIndex)
                       ELSE cycles
          /\ FormReset
          /\ alertText' = NoAlert
          /\ UNCHANGED calls
     ELSE IF editingIndex > Len(positions)
     THEN /\ alertText' = SaveFailed
          /\ UNCHANGED <<positions, formData, editingIndex, isEditing, cycles,
                         calls>>
     ELSE /\ calls' =
               Append(calls,
                      IF editingIndex = 0
                      THEN Call("save", "POST", 0, data)
                      ELSE IF Truthy(positions[editingIndex].id)
                      THEN Call("save", "PUT", positions[editingIndex].id[1],
                                data)
                      ELSE Call("save", "GET", 0, Null))
          /\ alertText' = NoAlert
          /\ UNCHANGED <<positions, formData, editingIndex, isEditing, cycles>>

\* deletePosition(index), the user answering the confirm dialog with
\* confirmed; rows count from 1 here.
deletePosition(index, confirmed) ==
  /\ lastOp' = Op("deletePosition", Null)
  /\ alertText' = NoAlert
  /\ UNCHANGED <<version, savedPortfolio, total_capital, formData,
                 editingIndex, isEditing, pfIsLoading, pfMounted, server,
                 flowVars, otherVars>>
  /\ IF version = "local"
     THEN /\ IF confirmed
             THEN /\ positions' = updateWeights(RemoveAt(positions, index),
                                                total_capital)
                  /\ cycles' = AfterSplice(cycles, index)
             ELSE UNCHANGED <<positions, cycles>>
          /\ UNCHANGED calls
     ELSE /\ calls' = IF Truthy(positions[index].id) /\ confirmed
                      THEN Append(calls, Call("delete", "DELETE",
                                              positions[index].id[1], Null))
                      ELSE calls
          /\ UNCHANGED <<positions, cycles>>

\* savePosition and deletePosition after the await of their PUT, POST or
\* DELETE request: the catch block when the fetch threw, else the call of
\* fetchPositions, whatever the status of the response.
requestSettles(c, outcome) ==
  LET call == calls[c] IN
  /\ call.method # "GET"
  /\ lastOp' = Op("requestSettles", Null)
  /\ UNCHANGED <<version, savedPortfolio, total_capital, positions, formData,
                 editingIndex, isEditing, pfIsLoading, pfMounted, cycles,
                 flowVars, otherVars>>
  /\ IF outcome = "thrown"
     THEN /\ alertText' = IF call.fn = "save" THEN SaveFailed ELSE DeleteFailed
          /\ calls' = RemoveAt(calls, c)
          /\ UNCHANGED server
     ELSE /\ alertText' = NoAlert
          /\ calls' = [calls EXCEPT ![c] = Call(call.fn, "GET", 0, Null)]
          /\ server' =
               IF outcome # "ok" THEN server
               ELSE IF call.method = "POST"
               THEN CreatePosition(server, call.body)
               ELSE IF call.method = "PUT"
               THEN UpdatePosition(server, call.id, call.body)
               ELSE DeletePosition(server, call.id)

\* fetchPositions after the await of GET /api/portfolio, and then the rest
\* of the function that awaited fetchPositions: resetForm in savePosition.
fetchPositions(c, outcome) ==
  LET call == calls[c]
      data == ListPositions(server)
  IN
  /\ call.method = "GET"
  /\ lastOp' = Op("fetchPositions", Null)
  /\ alertText' = NoAlert
  /\ calls' = RemoveAt(calls, c)
  /\ IF outcome = "ok"
     THEN /\ positions' = data
          /\ StartRefresh(data, AfterReload(cycles, Len(positions)))
     ELSE UNCHANGED <<positions, pfIsLoading, cycles>>
  /\ IF call.fn = "save"
     THEN FormReset
     ELSE UNCHANGED <<formData, editingIndex, isEditing>>
  /\ UNCHANGED <<version, savedPortfolio, total_capital, pfMounted, server,
                 flowVars, otherVars>>

(***************************************************************************)
(* The portfolio component as the user and the network drive it.           *)
(***************************************************************************)

\* Most rows and highest id the backend is followed to.
MaxRows == 1
MaxRowId == 2

\* The backend when the API version starts: one row.
InitialServers ==
  { [rows |-> <<[id |-> 1, ts_code |-> "600519.SH", name |-> "600519.sh",
                 quantity |-> 100, cost_price |-> 10]>>,
     nextId |-> 2] }

\* The state after construction of the portfolio component, version v.
InitPortfolio(v) ==
  /\ currentStep = 1
  /\ isLoading = FALSE
  /\ errorMessage = NoMessage
  /\ sectorAnalysis = Null
  /\ selectedSectors = <<>>
  /\ stockRecommendations = Null
  /\ riskPreference = "balanced"
  /\ storedRisk = ""
  /\ mounted = FALSE
  /\ inflight = <<>>
  /\ lastOp = [op |-> "setup", arg |-> Null, step |-> 1]
  /\ version = v
  /\ savedPortfolio \in (IF v = "local" THEN SavedPortfolios ELSE {Null})
  /\ total_capital = InitialCapital
  /\ positions = <<>>
  /\ formData = EmptyForm
  /\ editingIndex = 0
  /\ isEditing = FALSE
  /\ pfIsLoading = FALSE
  /\ pfMounted = FALSE
  /\ cycles = <<>>
  /\ server \in (IF v = "api" THEN InitialServers
                 ELSE {[rows |-> <<>>, nextId |-> 1]})
  /\ calls = <<>>
  /\ alertText = NoAlert
  /\ OtherInit

\* The refresh button is disabled while isLoading is set.
RefreshButtonEnabled == ~pfIsLoading
\* The cancel button is rendered while a row is being edited.
CancelButtonRendered == editingIndex # 0
\* The rows of the table, each with its edit and its delete button.
RenderedRows == 1..Len(positions)

PortfolioMount == portfolioOnMounted

TypeForm == \E draft \in Drafts : pfMounted /\ fillForm(draft)

TypeTotalCapital == \E amount \in CapitalInputs \cup {InitialCapital} :
  pfMounted /\ setTotalCapital(amount)

ClickRefresh ==
  /\ pfMounted /\ RefreshButtonEnabled /\ Len(cycles) < MaxCycles
  /\ refreshQuotes

\* The save button; an accepted add is followed while the ledger and the
\* backend are within the bounds.
ClickSave ==
  /\ pfMounted
  /\ \/ ValidationAlert(formData) # NoAlert
     \/ IF version = "local"
        THEN editingIndex # 0 \/ Len(positions) < MaxPositions
        ELSE /\ Len(calls) < MaxCalls
             /\ \/ editingIndex # 0
                \/ /\ Len(server.rows) < MaxRows
                   /\ server.nextId <= MaxRowId
  /\ savePosition

ClickEdit == \E index \in RenderedRows : pfMounted /\ editPosition(index)

ClickDelete == \E index \in RenderedRows, confirmed \in BOOLEAN :
  /\ pfMounted
  /\ version = "api" => Len(calls) < MaxCalls
  /\ deletePosition(index, confirmed)

ClickCancel == pfMounted /\ CancelButtonRendered /\ resetForm

QuoteArrives == \E c \in 1..Len(cycles), q \in Quotes : refreshQuotesOk(c, q)

QuoteFails == \E c \in 1..Len(cycles), f \in QuoteFailures :
  refreshQuotesFail(c, f)

RequestSettles == \E c \in 1..Len(calls), outcome \in CallOutcomes :
  requestSettles(c, outcome)

ListSettles == \E c \in 1..Len(calls), outcome \in CallOutcomes :
  Len(cycles) < MaxCycles /\ fetchPositions(c, outcome)

\* The localStorage version.
NextLocal ==
  \/ PortfolioMount
  \/ TypeForm
  \/ TypeTotalCapital
  \/ ClickRefresh
  \/ ClickSave
  \/ ClickEdit
  \/ ClickDelete
  \/ ClickCancel
  \/ QuoteArrives
  \/ QuoteFails

SpecLocal == InitPortfolio("local") /\ [][NextLocal]_vars

\* The API version.
NextApi ==
  \/ PortfolioMount
  \/ TypeForm
  \/ TypeTotalCapital
  \/ ClickRefresh
  \/ ClickSave
  \/ ClickEdit
  \/ ClickDelete
  \/ ClickCancel
  \/ QuoteArrives
  \/ QuoteFails
  \/ RequestSettles
  \/ ListSettles

SpecApi == InitPortfolio("api") /\ [][NextApi]_vars

(***************************************************************************)
(* Properties of the portfolio component.                                  *)
(***************************************************************************)

\* C13: savePosition with an empty ts_code, a quantity that is not a
\* positive multiple of 100 or a cost_price that is not greater than 0 is
\* rejected: it raises the validation alert, sends no request and leaves
\* positions and total_capital as they were.
C13_InvalidDraftRejected ==
  [][(/\ lastOp'.op = "savePosition"
      /\ \/ formData.ts_code = ""
         \/ formData.quantity <= 0
         \/ formData.quantity % 100 # 0
         \/ formData.cost_price <= 0) =>
       /\ alertText' \in {"alert: ts_code", "alert: quantity",
                          "alert: cost_price"}
       /\ UNCHANGED <<positions, total_capital, calls, cycles, server>>]_vars

\* savePosition has just rejected a quantity of 150 while the ledger holds a
\* position.
C13_Witness ==
  /\ lastOp.op = "savePosition"
  /\ alertText = "alert: quantity"
  /\ formData.quantity = 150
  /\ Len(positions) = 1

\* C14: a quote fetch that fails changes no position's current_price, profit,
\* profit_pct, name or static fields, raises no alert and does not end the
\* cycle: every run of refreshQuotes that is in flight stays in flight unless
\* it was at the last element of the array it walks, or the next element is
\* an empty slot.
C14_FailureIsolation ==
  [][lastOp'.op = "refreshQuotes.fail" =>
       /\ alertText' = NoAlert
       /\ Len(positions') = Len(positions)
       /\ \A i \in 1..Len(positions) :
            \/ positions[i] = Hole /\ positions'[i] = Hole
            \/ /\ positions[i] # Hole
               /\ positions'[i] = [positions[i] EXCEPT
                                     !.weight = positions'[i].weight]
       /\ \A c \in 1..Len(cycles) :
            (/\ cycles[c].live
             /\ cycles[c].idx < Len(positions)
             /\ positions[cycles[c].idx + 1] # Hole) =>
              /\ Len(cycles') = Len(cycles)
              /\ cycles'[c].idx \in {cycles[c].idx, cycles[c].idx + 1}]_vars

\* The fetch for the first of two positions has just failed: the position
\* keeps the price and the profit of the cycle before, and the quote of the
\* second position is being fetched.
C14_Witness ==
  /\ lastOp.op = "refreshQuotes.fail"
  /\ Len(positions) = 2
  /\ positions[1] # Hole
  /\ positions[1].current_price = <<12>>
  /\ positions[1].profit = <<200>>
  /\ cycles = <<[live |-> TRUE, idx |-> 2, cur |-> 2, rest |-> 0]>>
  /\ pfIsLoading

\* C15: at most one run of refreshQuotes is in flight at any time, whether
\* it was started by the refresh button, on mount or by fetchPositions: a
\* call made while another run is outstanding starts nothing.
C15_SingleRefreshCycle == Len(cycles) <= 1

\* C16: after a step that adds, replaces or removes a position or changes
\* total_capital, every position's weight is quantity * cost_price /
\* total_capital * 100 for the total_capital of the state reached, and 0
\* when that total_capital is 0.
C16_WeightsFollowMutations ==
  [][(\/ total_capital' # total_capital
      \/ /\ lastOp'.op \in {"savePosition", "deletePosition"}
         /\ positions' # positions) =>
       \A i \in 1..Len(positions') :
         positions'[i] # Hole =>
           /\ positions'[i].weight # Undefined
           /\ positions'[i].weight =
                IF total_capital' = 0 THEN Ratio(0, 1)
                ELSE Ratio(positions'[i].quantity * positions'[i].cost_price
                             * 100,
                           total_capital')]_vars

\* C17: total_capital is never negative.
C17_CapitalNeverNegative == total_capital >= 0

\* C18 as stated: the profit of a position that has one is (effective_price
\* - cost_price) * quantity, effective_price being current_price when it is
\* defined and cost_price otherwise.
C18_ProfitFromDefinedPrice ==
  \A i \in 1..Len(positions) :
    (positions[i] # Hole /\ positions[i].profit # Undefined) =>
      positions[i].profit[1] =
        ((IF positions[i].current_price # Undefined
          THEN positions[i].current_price[1]
          ELSE positions[i].cost_price) - positions[i].cost_price)
        * positions[i].quantity

\* C18, amended: the profit of a position that has one is (effective_price -
\* cost_price) * quantity, effective_price being current_price when it is
\* defined and not 0, and cost_price otherwise.
C18_ProfitFromTruthyPrice ==
  \A i \in 1..Len(positions) :
    (positions[i] # Hole /\ positions[i].profit # Undefined) =>
      positions[i].profit[1] =
        ((IF /\ positions[i].current_price # Undefined
             /\ positions[i].current_price[1] # 0
          THEN positions[i].current_price[1]
          ELSE positions[i].cost_price) - positions[i].cost_price)
        * positions[i].quantity

\* One position was quoted at 0 and carries a profit of 0, another was
\* quoted at 12 and carries the profit of that price.
C18_Witness ==
  /\ lastOp.op = "refreshQuotes.ok"
  /\ Len(positions) = 2
  /\ positions[1] # Hole /\ positions[2] # Hole
  /\ positions[1].current_price = <<0>>
  /\ positions[1].profit = <<0>>
  /\ positions[2].current_price = <<12>>
  /\ positions[2].profit = <<(12 - positions[2].cost_price)
                              * positions[2].quantity>>

\* C19: a savePosition that is accepted while a row of the ledger is being
\* edited replaces the ts_code (upper-cased), name, quantity and cost_price
\* of that position and keeps its current_price, profit and profit_pct, all
\* other positions staying as they are up to their weight; one that is
\* accepted while no row is being edited appends exactly one position.
C19_EditKeepsDerivedFields ==
  [][(/\ lastOp'.op = "savePosition"
      /\ alertText' = NoAlert
      /\ editingIndex <= Len(positions)
      /\ \A i \in 1..Len(positions) : positions[i] # Hole) =>
       /\ Len(positions') = Len(positions) + (IF editingIndex = 0 THEN 1 ELSE 0)
       /\ \A i \in 1..Len(positions) :
            positions'[i] =
              IF i = editingIndex
              THEN [positions[i] EXCEPT
                      !.ts_code = ToUpperCase(formData.ts_code),
                      !.name = IF formData.name # "" THEN formData.name
                               ELSE formData.ts_code,
                      !.quantity = formData.quantity,
                      !.cost_price = formData.cost_price,
                      !.weight = positions'[i].weight]
              ELSE [positions[i] EXCEPT !.weight = positions'[i].weight]]_vars

\* C20: a confirmed deletePosition removes one position, the others staying
\* as they are up to their weight, and no position with the ts_code of the
\* removed one (which has no id in the localStorage version) remains.
C20_DeleteByIdentity ==
  [][(/\ lastOp'.op = "deletePosition"
      /\ Len(positions') # Len(positions)) =>
       \E i \in 1..Len(positions) :
         /\ positions[i] # Hole
         /\ Len(positions') = Len(positions) - 1
         /\ \A j \in 1..Len(positions') :
              LET old == RemoveAt(positions, i)[j] IN
              \/ old = Hole /\ positions'[j] = Hole
              \/ /\ old # Hole
                 /\ positions'[j] # Hole
                 /\ positions'[j] = [old EXCEPT !.weight = positions'[j].weight]
                 /\ positions'[j].ts_code # positions[i].ts_code]_vars

(***************************************************************************)
(* The quantity field of the API version: the text field with its change   *)
(* handler, and the two buttons around it.                                 *)
(***************************************************************************)

\* Largest number typed into the quantity field.
MaxEntered == 450

\* What parseInt makes of the typed text.  A text that is no number gives
\* NaN, which `|| 100` treats as it treats 0.
EnteredQuantities == (-150)..MaxEntered

\* @change of the quantity field:
\* formData.quantity = parseInt(value) || 100; validateQuantity().
changeQuantity(q) ==
  /\ entered' = q
  /\ formData' = [formData EXCEPT
                    !.quantity = validateQuantity(ParseQuantity(q))]
  /\ alertText' = NoAlert
  /\ lastOp' = Op("validateQuantity", Null)
  /\ UNCHANGED <<version, savedPortfolio, total_capital, positions,
                 editingIndex, isEditing, pfIsLoading, pfMounted, cycles,
                 server, calls, flowVars, isDiagnosing, diagnosisResult,
                 diagnosisRaw, diagnoses, dbVars>>

\* adjustQuantity without its test newQty >= 100.
adjustQuantity_NoFloor(delta) ==
  /\ formData' = [formData EXCEPT !.quantity = formData.quantity + delta]
  /\ alertText' = NoAlert
  /\ lastOp' = Op("adjustQuantity", Null)
  /\ UNCHANGED <<version, savedPortfolio, total_capital, positions,
                 editingIndex, isEditing, pfIsLoading, pfMounted, cycles,
                 server, calls, flowVars, otherVars>>

\* adjustQuantity(delta).
adjustQuantity(delta) ==
  LET newQty == formData.quantity + delta IN
  /\ formData' = IF newQty >= 100
                 THEN [formData EXCEPT !.quantity = newQty]
                 ELSE formData
  /\ alertText' = NoAlert
  /\ lastOp' = Op("adjustQuantity", Null)
  /\ UNCHANGED <<version, savedPortfolio, total_capital, positions,
                 editingIndex, isEditing, pfIsLoading, pfMounted, cycles,
                 server, calls, flowVars, otherVars>>

\* The minus button is disabled while the quantity is 100 or less.
MinusButtonEnabled == formData.quantity > 100

TypeQuantity == \E q \in EnteredQuantities : pfMounted /\ changeQuantity(q)

ClickMinus == pfMounted /\ MinusButtonEnabled /\ adjustQuantity(-100)

\* The plus button, followed while the quantity is within the bound.
ClickPlus == pfMounted /\ formData.quantity <= MaxEntered /\ adjustQuantity(100)

\* adjustQuantity(-100) called while the minus button is disabled.
CallAdjustQuantity == pfMounted /\ ~MinusButtonEnabled /\ adjustQuantity(-100)

NextQuantity ==
  \/ PortfolioMount
  \/ TypeQuantity
  \/ ClickMinus
  \/ ClickPlus
  \/ CallAdjustQuantity

SpecQuantity == InitPortfolio("api") /\ [][NextQuantity]_vars

\* C21: validateQuantity maps every entered quantity to the largest multiple
\* of 100 not exceeding it, and to 100 when that is below 100; 250 gives 200.
C21_RoundsDown ==
  LET down == (entered \div 100) * 100 IN
  lastOp.op = "validateQuantity" =>
    formData.quantity = (IF down < 100 THEN 100 ELSE down)

(***************************************************************************)
(* The diagnosis of the API version.                                       *)
(***************************************************************************)

\* Most runs of diagnosePortfolio followed while they await the response.
MaxDiagnoses == 1

\* The alerts of diagnosePortfolio and exportDiagnosis.
AddPositionsFirst == "alert: add positions first"
DiagnoseFailed(error) ==
  "alert: diagnosis failed: " \o (IF error = "" THEN "unknown error" ELSE error)
DiagnoseRequestFailed == "alert: diagnosis request failed"
NothingToExport == "alert: no report to export"

\* The bodies POST /api/user/portfolio/diagnose answers with.
DiagnoseResponses ==
  { [success |-> TRUE, diagnosis |-> "hold", error |-> ""],
    [success |-> TRUE, diagnosis |-> "reduce", error |-> ""],
    [success |-> FALSE, diagnosis |-> "", error |-> ""],
    [success |-> FALSE, diagnosis |-> "", error |-> "quota"] }

\* The refs of the ledger and its form.
pfData == <<version, savedPortfolio, total_capital, positions, formData,
            editingIndex, isEditing, pfIsLoading, pfMounted, cycles, server,
            calls>>

\* marked.parse of a one-paragraph report.
MarkedParse(text) == "<p>" \o text \o "</p>"

\* diagnosePortfolio without its test for an empty ledger.
diagnosePortfolio_NoEmptyCheck ==
  /\ lastOp' = Op("diagnosePortfolio", Null)
  /\ alertText' = NoAlert
  /\ isDiagnosing' = TRUE
  /\ diagnosisResult' = NoReport
  /\ diagnosisRaw' = NoReport
  /\ diagnoses' = Append(diagnoses,
                         [total_capital |-> total_capital,
                          positions |-> positions,
                          prior |-> diagnosisResult])
  /\ UNCHANGED <<pfData, entered, flowVars, dbVars>>

\* diagnosePortfolio up to its await of fetch.  The run keeps the request
\* body; prior is the report that was stored when the function was called.
diagnosePortfolio ==
  /\ lastOp' = Op("diagnosePortfolio", Null)
  /\ IF Len(positions) = 0
     THEN /\ alertText' = AddPositionsFirst
          /\ UNCHANGED <<isDiagnosing, diagnosisResult, diagnosisRaw,
                         diagnoses>>
     ELSE /\ alertText' = NoAlert
          /\ isDiagnosing' = TRUE
          /\ diagnosisResult' = NoReport
          /\ diagnosisRaw' = NoReport
          /\ diagnoses' = Append(diagnoses,
                                 [total_capital |-> total_capital,
                                  positions |-> positions,
                                  prior |-> diagnosisResult])
  /\ UNCHANGED <<pfData, entered, flowVars, dbVars>>

\* diagnosePortfolio after the await of its request, the response parsed
\* into data: the report is stored and rendered, or the error is alerted;
\* finally isDiagnosing is cleared.
diagnoseResponds(d, data) ==
  /\ lastOp' = Op("diagnoseSettles", Null)
  /\ diagnoses' = RemoveAt(diagnoses, d)
  /\ IF data.success
     THEN /\ diagnosisRaw' = data.diagnosis
          /\ diagnosisResult' = MarkedParse(data.diagnosis)
          /\ alertText' = NoAlert
     ELSE /\ alertText' = DiagnoseFailed(data.error)
          /\ UNCHANGED <<diagnosisResult, diagnosisRaw>>
  /\ isDiagnosing' = FALSE
  /\ UNCHANGED <<pfData, entered, flowVars, dbVars>>

\* diagnosePortfolio when fetch or response.json() threw.
diagnoseThrows(d) ==
  /\ lastOp' = Op("diagnoseSettles", Null)
  /\ diagnoses' = RemoveAt(diagnoses, d)
  /\ alertText' = DiagnoseRequestFailed
  /\ isDiagnosing' = FALSE
  /\ UNCHANGED <<diagnosisResult, diagnosisRaw, pfData, entered, flowVars,
                 dbVars>>

\* The close button of the report: diagnosisResult = null.
closeDiagnosis ==
  /\ diagnosisResult' = NoReport
  /\ alertText' = NoAlert
  /\ lastOp' = Op("closeDiagnosis", Null)
  /\ UNCHANGED <<isDiagnosing, diagnosisRaw, diagnoses, pfData, entered,
                 flowVars, dbVars>>

\* exportDiagnosis: the report is handed to the browser as a download.
exportDiagnosis ==
  /\ alertText' = IF diagnosisRaw = NoReport \/ diagnosisRaw = ""
                  THEN NothingToExport ELSE NoAlert
  /\ lastOp' = Op("exportDiagnosis", Null)
  /\ UNCHANGED <<dgVars, pfData, flowVars, dbVars>>

\* The diagnose button is disabled during a diagnosis and while the ledger
\* is empty.
DiagnoseButtonEnabled == ~isDiagnosing /\ Len(positions) # 0
\* The report with its export and close buttons is rendered while
\* diagnosisResult is truthy.
ReportRendered == diagnosisResult # NoReport /\ diagnosisResult # ""

ClickDiagnose ==
  /\ pfMounted /\ DiagnoseButtonEnabled /\ Len(diagnoses) < MaxDiagnoses
  /\ diagnosePortfolio

\* diagnosePortfolio called whatever the state of its button.
CallDiagnose ==
  /\ pfMounted /\ ~DiagnoseButtonEnabled /\ Len(diagnoses) < MaxDiagnoses
  /\ diagnosePortfolio

ClickCloseDiagnosis == pfMounted /\ ReportRendered /\ closeDiagnosis

ClickExport == pfMounted /\ ReportRendered /\ exportDiagnosis

DiagnosisArrives == \E d \in 1..Len(diagnoses), data \in DiagnoseResponses :
  diagnoseResponds(d, data)

DiagnosisThrows == \E d \in 1..Len(diagnoses) : diagnoseThrows(d)

\* The API version with its diagnosis: the positions are loaded, deleted
\* and diagnosed.
NextReport ==
  \/ PortfolioMount
  \/ ClickDelete
  \/ QuoteArrives
  \/ QuoteFails
  \/ RequestSettles
  \/ ListSettles
  \/ ClickDiagnose
  \/ CallDiagnose
  \/ ClickCloseDiagnosis
  \/ ClickExport
  \/ DiagnosisArrives
  \/ DiagnosisThrows

SpecReport == InitPortfolio("api") /\ [][NextReport]_vars

\* The same, with positions added and edited as well.
NextDiagnose ==
  \/ NextReport
  \/ TypeForm
  \/ ClickSave

SpecDiagnose == InitPortfolio("api") /\ [][NextDiagnose]_vars

(***************************************************************************)
(* Properties of the quantity field and of the diagnosis.                  *)
(***************************************************************************)

\* C22: diagnosePortfolio called with an empty positions list sends no
\* diagnostic request and leaves isDiagnosing and the stored diagnosis as
\* they were; it only raises its alert.
C22_EmptyLedgerNoRequest ==
  [][(lastOp'.op = "diagnosePortfolio" /\ Len(positions) = 0) =>
       /\ diagnoses' = diagnoses
       /\ isDiagnosing' = isDiagnosing
       /\ diagnosisResult' = diagnosisResult
       /\ diagnosisRaw' = diagnosisRaw
       /\ alertText' = AddPositionsFirst]_vars

\* diagnosePortfolio has just run on an empty ledger while a report of an
\* earlier diagnosis is stored.
C22_Witness ==
  /\ lastOp.op = "diagnosePortfolio"
  /\ Len(positions) = 0
  /\ alertText = AddPositionsFirst
  /\ diagnosisResult = MarkedParse("hold")
  /\ diagnoses = <<>>

\* C23: a validation or remote error in savePosition, deletePosition or
\* diagnosePortfolio leaves the prior state untouched: when the operation
\* ends with its error alert, the ledger and the draft form are as the step
\* found them, and the stored diagnosis is the one that was stored when the
\* operation was called.
C23_FailureLeavesStateUntouched ==
  [][alertText' \in {"alert: ts_code", "alert: quantity", "alert: cost_price",
                     SaveFailed, DeleteFailed, AddPositionsFirst,
                     DiagnoseRequestFailed}
                    \cup {DiagnoseFailed(data.error) : data \in DiagnoseResponses}
     => /\ positions' = positions
        /\ formData' = formData
        /\ editingIndex' = editingIndex
        /\ IF lastOp'.op = "diagnoseSettles"
           THEN \E d \in 1..Len(diagnoses) :
                  /\ diagnoses' = RemoveAt(diagnoses, d)
                  /\ diagnosisResult' = diagnoses[d].prior
           ELSE diagnosisResult' = diagnosisResult]_vars

\* C24: ts_code is unique within the ledger: no two positions of the
\* portfolio share the same ts_code.
C24_UniqueTsCode ==
  \A i, j \in 1..Len(positions) :
    (i # j /\ positions[i] # Hole /\ positions[j] # Hole)
      => positions[i].ts_code # positions[j].ts_code

(***************************************************************************)
(* parseApiError of the Dashboard (the same text in Dashboard.vue and in   *)
(* part_001), on the JavaScript values a response body can hold.           *)
(***************************************************************************)

\* The analysis flow before it is created.
FlowAbsent ==
  /\ currentStep = 1
  /\ isLoading = FALSE
  /\ errorMessage = NoMessage
  /\ sectorAnalysis = Null
  /\ selectedSectors = <<>>
  /\ stockRecommendations = Null
  /\ riskPreference = "balanced"
  /\ storedRisk = ""
  /\ mounted = FALSE
  /\ inflight = <<>>
  /\ lastOp = [op |-> "setup", arg |-> Null, step |-> 1]

\* A string is a sequence of runs [w, n], the first n characters of the word
\* w.  The words are the markers parseApiError looks for, the fixed texts of
\* its descriptors, and "x", which stands for characters of no marker.
WordLen(w) ==
  CASE w = "429" -> 3
    [] w = "quota" -> 5
    [] w = "exceeded" -> 8
    [] w = "no access permission" -> 8
    [] w = "tushare.pro" -> 11
Word(w) == [w |-> w, n |-> WordLen(w)]
Filler(n) == [w |-> "x", n |-> n]
Literal(s, n) == <<[w |-> s, n |-> n]>>

RECURSIVE StrLength(_)
\* s.length
StrLength(s) == IF s = <<>> THEN 0 ELSE s[1].n + StrLength(Tail(s))

\* s.includes(w) for a marker w.
Includes(s, w) == \E i \in 1..Len(s) : s[i] = Word(w)

RECURSIVE Substring(_, _)
\* s.substring(0, k)
Substring(s, k) ==
  IF s = <<>> \/ k <= 0 THEN <<>>
  ELSE IF s[1].n <= k THEN <<s[1]>> \o Substring(Tail(s), k - s[1].n)
  ELSE <<[w |-> s[1].w, n |-> k]>>

\* JavaScript values: undefined, null, strings, numbers, booleans, arrays of
\* marker words, other objects, and response bodies with the three fields
\* parseApiError reads.
JsUndefined == [type |-> "undefined"]
JsNull == [type |-> "null"]
JsString(s) == [type |-> "string", text |-> s]
JsNumber(n) == [type |-> "number", num |-> n]
JsBoolean(b) == [type |-> "boolean", bool |-> b]
JsArray(items) == [type |-> "array", items |-> items]
JsObject == [type |-> "object"]
Body(detail, success, content) ==
  [type |-> "body", detail |-> detail, success |-> success,
   content |-> content]

\* The truth value of v in a condition.
JsTruthy(v) ==
  CASE v.type \in {"undefined", "null"} -> FALSE
    [] v.type = "string" -> v.text # <<>>
    [] v.type = "number" -> v.num # 0
    [] v.type = "boolean" -> v.bool
    [] OTHER -> TRUE

\* data?.detail, data?.success and data?.content: undefined unless data is
\* a body.
Field(data, name) == IF data.type = "body" THEN data[name] ELSE JsUndefined

\* substring(0, 200) of the message and substring(0, 500) of the details.
MessageLimit == 200
DetailsLimit == 500

\* The titles of the four descriptors.
QuotaTitle == "API quota exhausted"
PermissionTitle == "data source permission"
RequestFailedTitle == "request failed"
OperationFailedTitle == "operation failed"

\* A call that ended with an exception.
Thrown(error) == [thrown |-> error]

\* A variant of the descriptor for any other detail that always carries the
\* full text as details.
GenericUpstream_AlwaysDetails(text) ==
  [title |-> RequestFailedTitle,
   message |-> Substring(text, MessageLimit),
   details |-> <<text>>]

\* The descriptor returned for a detail without markers: detail.substring(0,
\* 200) as message, the detail as details if detail.length > 200.
GenericUpstream(text) ==
  [title |-> RequestFailedTitle,
   message |-> Substring(text, MessageLimit),
   details |-> IF StrLength(text) > MessageLimit THEN <<text>> ELSE Undefined]

\* parseApiError(data, defaultMessage): the descriptor returned, or the
\* exception thrown.
parseApiError(data, defaultMessage) ==
  LET detail == Field(data, "detail")
      success == Field(data, "success")
      content == Field(data, "content")
      unknown == [title |-> OperationFailedTitle, message |-> defaultMessage,
                  details |-> Undefined]
  IN
  IF JsTruthy(detail) /\ detail.type = "string"
  THEN IF \/ Includes(detail.text, "429")
          \/ Includes(detail.text, "quota")
          \/ Includes(detail.text, "exceeded")
       THEN [title |-> QuotaTitle,
             message |-> Literal("Gemini quota reached", 21),
             details |-> <<Literal("quota remedies", 84)>>]
       ELSE IF \/ Includes(detail.text, "no access permission")
               \/ Includes(detail.text, "tushare.pro")
       THEN [title |-> PermissionTitle,
             message |-> Literal("Tushare credits too low", 25),
             details |-> <<Literal("permission remedies", 62)>>]
       ELSE GenericUpstream(detail.text)
  ELSE IF success.type = "boolean" /\ ~success.bool /\ JsTruthy(content)
  THEN \* content.includes and content.substring are called as if content
       \* were a string
       IF content.type = "string"
       THEN IF \/ Includes(content.text, "429")
               \/ Includes(content.text, "quota")
            THEN [title |-> QuotaTitle,
                  message |-> Literal("LLM quota too low", 10),
                  details |-> <<Substring(content.text, DetailsLimit)>>]
            ELSE unknown
       ELSE IF content.type = "array"
       THEN IF "429" \in content.items \/ "quota" \in content.items
            THEN Thrown("TypeError: content.substring is not a function")
            ELSE unknown
       ELSE Thrown("TypeError: content.includes is not a function")
  ELSE unknown

\* The strings tried as detail and as content.
Texts ==
  { <<>>,
    <<Word("429")>>,
    <<Filler(4), Word("quota")>>,
    <<Word("exceeded")>>,
    <<Word("no access permission")>>,
    <<Word("tushare.pro"), Filler(2)>>,
    <<Word("no access permission"), Word("429")>>,
    <<Word("tushare.pro"), Word("quota")>>,
    <<[w |-> "quota", n |-> 4]>>,
    <<Filler(5)>>,
    <<Filler(200)>>,
    <<Filler(201)>>,
    <<Filler(498), Word("quota")>> }

\* The values tried as the detail, success and content fields of a body.
Details ==
  {JsUndefined, JsNull, JsNumber(429), JsObject, JsBoolean(TRUE)}
    \cup {JsString(s) : s \in Texts}
Successes ==
  {JsUndefined, JsBoolean(TRUE), JsBoolean(FALSE), JsNumber(0),
   JsString(<<Filler(5)>>)}
Contents ==
  {JsUndefined, JsNull, JsNumber(429), JsObject, JsBoolean(TRUE),
   JsArray({}), JsArray({"429"})}
    \cup {JsString(s) : s \in Texts}

\* The values tried as data: absent, not an object, or a body.
Payloads ==
  {JsUndefined, JsNull, JsNumber(429), JsString(<<Word("429")>>), JsObject}
    \cup {Body(d, s, c) : d \in Details, s \in Successes, c \in Contents}

\* The default messages of the callers.
DefaultMessages ==
  {Literal("quick scan failed", 16), Literal("diagnosis failed", 6)}

\* parseApiError is about to be called with payload.
InitClassify ==
  /\ FlowAbsent
  /\ PortfolioAbsent
  /\ DiagnosisInit
  /\ DashboardRefs("part_001")
  /\ day = 1
  /\ hours = 0
  /\ minutes = 0
  /\ payload \in [data : Payloads, defaultMessage : DefaultMessages]
  /\ descriptor = Null

Classify ==
  /\ descriptor = Null
  /\ descriptor' = parseApiError(payload.data, payload.defaultMessage)
  /\ lastOp' = Op("parseApiError", Null)
  /\ UNCHANGED <<flowVars, pfVars, dgVars, dashRefs, clock, stockVars, payload>>

SpecClassify == InitClassify /\ [][Classify]_vars

(***************************************************************************)
(* Properties of parseApiError.                                            *)
(***************************************************************************)

\* C25: parseApiError applies its rules in strict priority order: a textual
\* detail with a quota marker gives QuotaExceeded, also when it carries a
\* permission marker; a permission marker gives DataSourcePermission only
\* without a quota marker; any other textual detail gives GenericUpstream,
\* whatever success and content hold; and a payload that matches none of the
\* rules gives Unknown with the caller's default message.
C25_PriorityOrder ==
  LET detail == Field(payload.data, "detail")
      success == Field(payload.data, "success")
      content == Field(payload.data, "content")
      textual == detail.type = "string"
      Marked(v, ws) == v.type = "string" /\ \E w \in ws : Includes(v.text, w)
      quota == Marked(detail, {"429", "quota", "exceeded"})
      permission == Marked(detail, {"no access permission", "tushare.pro"})
      narrative == /\ success = JsBoolean(FALSE)
                   /\ Marked(content, {"429", "quota", "exceeded"})
      returned == "title" \in DOMAIN descriptor
  IN
  descriptor # Null =>
    /\ (textual /\ quota) => returned /\ descriptor.title = QuotaTitle
    /\ (textual /\ ~quota /\ permission)
         => returned /\ descriptor.title = PermissionTitle
    /\ (textual /\ ~quota /\ ~permission)
         => returned /\ descriptor.title = RequestFailedTitle
    /\ (~textual /\ ~narrative)
         => /\ returned
            /\ descriptor.title = OperationFailedTitle
            /\ descriptor.message = payload.defaultMessage

\* C26: parseApiError never raises: for every payload it returns a
\* descriptor with a title, a message and optional details.
C26_NeverRaises ==
  descriptor # Null => DOMAIN descriptor = {"title", "message", "details"}

(***************************************************************************)
(* The alert of the Dashboard: showError, its timeout, and closeError.     *)
(***************************************************************************)

\* Most calls of showError followed, and the step of the clock in ms.
MaxShown == 3
TickMs == 2500

\* The delay of the setTimeout of showError, in ms.
AutoCloseMs == 10000

\* The alerts the callers of showError raise: the hint of runDiagnose, and
\* two descriptors of parseApiError that share the title "request failed".
Alerts ==
  { [type |-> "info", title |-> "enter a stock code",
     message |-> Literal("format example", 31), details |-> Undefined],
    [type |-> "error", title |-> RequestFailedTitle,
     message |-> <<Filler(5)>>, details |-> Undefined],
    [type |-> "error", title |-> RequestFailedTitle,
     message |-> <<Filler(200)>>, details |-> <<<<Filler(201)>>>>] }

\* A callback whose test never succeeds.
Expired_Never(timer) == FALSE
\* The test of the callback: errorMessage.value?.title === title.
Expired(timer) == toast # NoToast /\ toast.title = timer.title

\* The body of showError(type, title, message, details): errorMessage is
\* assigned and the setTimeout is registered; id numbers the call.
Shows(alert) ==
  /\ shown' = shown + 1
  /\ toast' = [type |-> alert.type, title |-> alert.title,
               message |-> alert.message, details |-> alert.details,
               id |-> shown + 1]
  /\ timers' = Append(timers, [title |-> alert.title, id |-> shown + 1,
                               left |-> AutoCloseMs])

\* showError called on its own.
showError(alert) ==
  /\ Shows(alert)
  /\ lastOp' = Op("showError", Null)
  /\ UNCHANGED <<flowVars, pfVars, dgVars, dashboard, dashMounted,
                 marketVars, clock, stockVars, payload, descriptor>>

\* closeError.
dashCloseError ==
  /\ toast' = NoToast
  /\ lastOp' = Op("closeError", Null)
  /\ UNCHANGED <<flowVars, pfVars, dgVars, dashboard, dashMounted, timers,
                 shown, marketVars, clock, stockVars, payload, descriptor>>

\* The callback of the oldest setTimeout runs, its delay having passed.
timeout ==
  /\ timers # <<>>
  /\ Head(timers).left = 0
  /\ toast' = IF Expired(Head(timers)) THEN NoToast ELSE toast
  /\ timers' = Tail(timers)
  /\ lastOp' = Op("timeout", Null)
  /\ UNCHANGED <<flowVars, pfVars, dgVars, dashboard, dashMounted, shown,
                 marketVars, clock, stockVars, payload, descriptor>>

\* TickMs pass; a callback that is due runs before more time passes.
Tick ==
  /\ timers # <<>>
  /\ \A i \in 1..Len(timers) : timers[i].left > 0
  /\ timers' = [i \in 1..Len(timers) |->
                  [timers[i] EXCEPT !.left = IF @ > TickMs THEN @ - TickMs
                                             ELSE 0]]
  /\ lastOp' = Op("tick", Null)
  /\ UNCHANGED <<flowVars, pfVars, dgVars, dashboard, dashMounted, toast,
                 shown, marketVars, clock, stockVars, payload, descriptor>>

\* The close button of the toast is rendered while errorMessage is set.
ToastRendered == toast # NoToast

\* showError as its callers call it.
CallShowError == \E alert \in Alerts : shown < MaxShown /\ showError(alert)

ClickCloseToast == ToastRendered /\ dashCloseError

InitAlerts ==
  /\ FlowAbsent
  /\ PortfolioAbsent
  /\ DiagnosisInit
  /\ DashboardRefs("part_001")
  /\ day = 1
  /\ hours = 0
  /\ minutes = 0
  /\ payload = Null
  /\ descriptor = Null

NextAlerts ==
  \/ CallShowError
  \/ ClickCloseToast
  \/ timeout
  \/ Tick

SpecAlerts == InitAlerts /\ [][NextAlerts]_vars

\* Time passes and due callbacks run: the event loop is never blocked.
SpecAlertsLive == SpecAlerts /\ WF_vars(Tick) /\ WF_vars(timeout)

(***************************************************************************)
(* Properties of the alert.                                                *)
(***************************************************************************)

\* C27: every alert shown by showError is dismissed once its 10-second
\* timeout has passed, unless it was replaced or closed before: no alert
\* stays displayed for ever.
C27_AlertExpires ==
  \A n \in 1..MaxShown :
    (toast # NoToast /\ toast.id = n) ~> (toast = NoToast \/ toast.id # n)

\* The timeout of the only alert shown has passed and its callback has
\* dismissed it.
C27_Witness ==
  /\ lastOp.op = "timeout"
  /\ shown = 1
  /\ toast = NoToast
  /\ timers = <<>>

\* C28: one alert is active at a time, and the expiry timer of an alert
\* that was replaced or closed never dismisses a newer alert, whatever the
\* titles: a timeout that dismisses the alert is the alert's own.
C28_OnlyOwnTimeoutDismisses ==
  [][(lastOp'.op = "timeout" /\ toast # NoToast /\ toast' = NoToast)
       => Head(timers).id = toast.id]_vars

(***************************************************************************)
(* The trading session and the reloading of the market data.               *)
(***************************************************************************)

\* isMarketOpen with the ends of the two sessions left out.
isMarketOpen_EndsExcluded(d, h, m) ==
  LET time == h * 100 + m IN
  IF d = 0 \/ d = 6 THEN FALSE
  ELSE (time >= 930 /\ time < 1130) \/ (time >= 1300 /\ time < 1500)

\* isMarketOpen(), for new Date() giving day d, hour h and minute m.
isMarketOpen(d, h, m) ==
  LET time == h * 100 + m IN
  IF d = 0 \/ d = 6 THEN FALSE
  ELSE (time >= 930 /\ time <= 1130) \/ (time >= 1300 /\ time <= 1500)

\* isMarketOpen is about to be called at some time of some day.
InitSession ==
  /\ FlowAbsent
  /\ PortfolioAbsent
  /\ DiagnosisInit
  /\ DashboardRefs("part_001")
  /\ day \in 0..6
  /\ hours \in 0..23
  /\ minutes \in 0..59
  /\ payload = Null
  /\ descriptor = Null

CallIsMarketOpen ==
  /\ marketOpen' = isMarketOpen(day, hours, minutes)
  /\ lastOp' = Op("isMarketOpen", Null)
  /\ UNCHANGED <<flowVars, pfVars, dgVars, dashboard, dashMounted, toast,
                 timers, shown, isLoadingMarket, marketIndices,
                 marketRequests, hidden, clock, stockVars, payload, descriptor>>

SpecSession == InitSession /\ [][CallIsMarketOpen]_vars

\* C29: isMarketOpen returns false on Saturday and Sunday, true when the
\* local time lies in [09:30, 11:30] or [13:00, 15:00], both ends included,
\* and false otherwise, for every weekday, hour and minute.
C29_SessionHours ==
  LET minuteOfDay == hours * 60 + minutes
      weekend == day = 0 \/ day = 6
      morning == 9 * 60 + 30 <= minuteOfDay /\ minuteOfDay <= 11 * 60 + 30
      afternoon == 13 * 60 <= minuteOfDay /\ minuteOfDay <= 15 * 60
  IN lastOp.op = "isMarketOpen" =>
       marketOpen = (~weekend /\ (morning \/ afternoon))

\* isMarketOpen has returned true at the last minute of the morning
\* session of a Friday.
C29_Witness ==
  /\ lastOp.op = "isMarketOpen"
  /\ day = 5 /\ hours = 11 /\ minutes = 30
  /\ marketOpen

\* Most runs of loadMarketData followed while they await the response.
MaxMarketRequests == 2

\* The bodies GET /api/market/realtime answers with: the names of the
\* indices it lists, or a failure without data.
MarketResponses ==
  { [success |-> TRUE, data |-> <<"SSE Composite", "STAR 50">>],
    [success |-> FALSE] }

\* The indices the Dashboard keeps of a response: part_001 keeps the three
\* main ones, Dashboard.vue all.
KeptIndices(data) ==
  IF dashboard = "part_001"
  THEN SelectSeq(data, LAMBDA name :
                   name \in {"SSE Composite", "SZSE Component", "ChiNext"})
  ELSE data

\* loadMarketData up to its await of fetch.
loadMarketData ==
  /\ isLoadingMarket' = TRUE
  /\ marketRequests' = marketRequests + 1
  /\ UNCHANGED marketIndices

\* The clock readings at which the interval timer is looked at: around the
\* ends of the two sessions, on a Sunday, a Wednesday and a Saturday.
TickDays == {0, 3, 6}
TickTimes == {<<9, 29>>, <<9, 30>>, <<11, 30>>, <<11, 31>>, <<13, 0>>,
              <<15, 0>>, <<15, 1>>}

\* onMounted of the Dashboard: loadMarketData(), then setInterval.
dashOnMounted ==
  /\ ~dashMounted
  /\ dashMounted' = TRUE
  /\ loadMarketData
  /\ lastOp' = Op("onMounted", Null)
  /\ UNCHANGED <<flowVars, pfVars, dgVars, dashboard, toast, timers, shown,
                 hidden, marketOpen, clock, stockVars, payload, descriptor>>

\* The refresh button: loadMarketData.
manualRefresh ==
  /\ loadMarketData
  /\ lastOp' = Op("loadMarketData", Null)
  /\ UNCHANGED <<flowVars, pfVars, dgVars, dashboard, dashMounted, toast,
                 timers, shown, hidden, marketOpen, clock, stockVars, payload,
                 descriptor>>

\* The callback of setInterval, run on day d at h:m with document.hidden
\* being hid.  Dashboard.vue: loadMarketData itself.  part_001: the test
\* of isMarketOpen() and document.hidden, then loadMarketData().
interval(d, h, m, hid) ==
  /\ day' = d
  /\ hours' = h
  /\ minutes' = m
  /\ hidden' = hid
  /\ lastOp' = Op("interval", Null)
  /\ IF dashboard = "part_001"
     THEN /\ marketOpen' = isMarketOpen(d, h, m)
          /\ IF isMarketOpen(d, h, m) /\ ~hid
             THEN loadMarketData
             ELSE UNCHANGED <<isLoadingMarket, marketIndices, marketRequests>>
     ELSE /\ loadMarketData
          /\ UNCHANGED marketOpen
  /\ UNCHANGED <<flowVars, pfVars, dgVars, dashboard, dashMounted, toast,
                 timers, shown, stockVars, payload, descriptor>>

\* loadMarketData after the await of its request, the response parsed
\* into data.
marketResponds(data) ==
  /\ marketRequests > 0
  /\ marketRequests' = marketRequests - 1
  /\ marketIndices' = IF data.success /\ "data" \in DOMAIN data
                      THEN KeptIndices(data.data) ELSE marketIndices
  /\ isLoadingMarket' = FALSE
  /\ lastOp' = Op("marketSettles", Null)
  /\ UNCHANGED <<flowVars, pfVars, dgVars, dashboard, dashMounted, toast,
                 timers, shown, hidden, marketOpen, clock, stockVars, payload,
                 descriptor>>

\* loadMarketData when fetch or response.json() threw.
marketThrows ==
  /\ marketRequests > 0
  /\ marketRequests' = marketRequests - 1
  /\ isLoadingMarket' = FALSE
  /\ lastOp' = Op("marketThrows", Null)
  /\ UNCHANGED <<flowVars, pfVars, dgVars, dashboard, dashMounted, toast,
                 timers, shown, marketIndices, hidden, marketOpen, clock,
                 stockVars, payload, descriptor>>

\* The refresh button is rendered while isLoadingMarket is not set.
MarketRefreshRendered == ~isLoadingMarket

ClickMarketRefresh ==
  /\ dashMounted /\ MarketRefreshRendered
  /\ marketRequests < MaxMarketRequests
  /\ manualRefresh

IntervalFires ==
  \E d \in TickDays, t \in TickTimes, hid \in BOOLEAN :
    /\ dashMounted
    /\ marketRequests < MaxMarketRequests
    /\ interval(d, t[1], t[2], hid)

MarketArrives == \E data \in MarketResponses : marketResponds(data)

\* Either version of the Dashboard is created at one of the clock readings.
InitMarket ==
  /\ FlowAbsent
  /\ PortfolioAbsent
  /\ DiagnosisInit
  /\ \E v \in {"Dashboard.vue", "part_001"} : DashboardRefs(v)
  /\ day \in TickDays
  /\ \E t \in TickTimes : hours = t[1] /\ minutes = t[2]
  /\ payload = Null
  /\ descriptor = Null

NextMarket ==
  \/ dashOnMounted
  \/ ClickMarketRefresh
  \/ IntervalFires
  \/ MarketArrives
  \/ marketThrows

SpecMarket == InitMarket /\ [][NextMarket]_vars

\* C30: a timer-driven refresh issues its request only if the trading
\* session is open at the tick, whereas a manual refresh issues its request
\* whatever the session state.
C30_TimerGatedManualFree ==
  [][/\ (lastOp'.op = "interval" /\ marketRequests' > marketRequests)
          => isMarketOpen(day', hours', minutes')
     /\ lastOp'.op = "loadMarketData"
          => marketRequests' = marketRequests + 1]_vars

(***************************************************************************)
(* The risk preference of the flow (AnalysisFlow.vue 65-84).               *)
(***************************************************************************)
\* C31: the flow's riskPreference is always one of aggressive, balanced and
\* conservative: it starts as balanced, onMounted adopts the persisted value
\* exactly when that value is one of the three (and keeps the current one
\* otherwise), and after setRiskPreference(v) both the ref and the persisted
\* value equal v.
C31_RiskPreferenceValid ==
  /\ riskPreference = "balanced"
  /\ [](riskPreference \in RiskValues)
  /\ [][/\ lastOp'.op = "onMounted" =>
             riskPreference' = IF storedRisk \in RiskValues
                               THEN storedRisk ELSE riskPreference
        /\ lastOp'.op = "setRiskPreference" =>
             /\ storedRisk' = lastOp'.arg
             /\ riskPreference' = lastOp'.arg]_vars

\* A stored string outside the three values was read at startup and the
\* default was kept.
C31_Witness ==
  /\ mounted /\ lastOp.op = "onMounted"
  /\ storedRisk = "other" /\ riskPreference = "balanced"

(***************************************************************************)
(* The weight recomputation at the end of a refresh cycle.                 *)
(***************************************************************************)
\* A step of refreshQuotes after an await changed the weight of a position.
RefreshRecomputedWeights ==
  /\ lastOp'.op \in {"refreshQuotes.ok", "refreshQuotes.fail"}
  /\ \E i \in 1..Len(positions) :
       /\ positions[i] # Hole
       /\ positions'[i].weight # positions[i].weight

\* Run c of refreshQuotes has no element of its array left to fetch.
LoopOver(c) ==
  IF cycles[c].live THEN cycles[c].idx >= Len(positions)
  ELSE cycles[c].rest = 0

\* The ordering inside one run: a step of refreshQuotes that changes a
\* weight is the last step of a run whose loop is over.
WeightsAfterOwnQuotes ==
  [][RefreshRecomputedWeights =>
       \E c \in 1..Len(cycles) :
         cycles' = RemoveAt(cycles, c) /\ LoopOver(c)]_vars

Carries(v, ws) == v.type = "string" /\ \E w \in ws : Includes(v.text, w)

\* The detail of the payload is a string without quota and permission
\* markers.
PlainDetail ==
  LET detail == Field(payload.data, "detail") IN
  /\ detail.type = "string"
  /\ ~Carries(detail, {"429", "quota", "exceeded", "no access permission",
                      "tushare.pro"})

\* The descriptor's message is the first 200 characters of the detail and
\* its details are the whole detail exactly when the detail is longer.
TruncatedDetail ==
  LET text == Field(payload.data, "detail").text
      length == StrLength(text)
  IN
  /\ "message" \in DOMAIN descriptor
  /\ StrLength(descriptor.message) =
       (IF length > MessageLimit THEN MessageLimit ELSE length)
  /\ descriptor.message = Substring(text, MessageLimit)
  /\ descriptor.details = IF length > MessageLimit THEN <<text>> ELSE Undefined

\* C33 as stated: for every textual detail without quota or permission
\* markers parseApiError returns the first 200 characters of the detail as
\* message, and the whole detail as details exactly when it is longer than
\* 200 characters.
C33_GenericDetail ==
  (descriptor # Null /\ PlainDetail) => TruncatedDetail

\* C33, amended: the same for every textual detail that is not the empty
\* string.
C33_NonEmptyGenericDetail ==
  (/\ descriptor # Null
   /\ PlainDetail
   /\ Field(payload.data, "detail").text # <<>>) => TruncatedDetail

\* A detail of 201 characters was cut to 200 and kept whole as details.
C33_Witness ==
  /\ descriptor # Null
  /\ Field(payload.data, "detail") = JsString(<<Filler(201)>>)
  /\ StrLength(descriptor.message) = MessageLimit
  /\ descriptor.details = <<(<<Filler(201)>>)>>

\* C34: for a payload without textual detail that signals success:false
\* with narrative content, parseApiError returns QuotaExceeded whenever the
\* narrative contains "429", "quota" or "exceeded", with the first 500
\* characters of the narrative as details.
C34_NarrativeQuota ==
  LET detail == Field(payload.data, "detail")
      success == Field(payload.data, "success")
      content == Field(payload.data, "content")
  IN
  (/\ descriptor # Null
   /\ detail.type # "string"
   /\ success = JsBoolean(FALSE)
   /\ Carries(content, {"429", "quota", "exceeded"})) =>
     /\ "title" \in DOMAIN descriptor
     /\ descriptor.title = QuotaTitle
     /\ descriptor.details = <<Substring(content.text, DetailsLimit)>>
     /\ StrLength(descriptor.details[1]) <= DetailsLimit

\* The same for the two markers the narrative rule tests, "429" and "quota".
NarrativeQuotaTested ==
  LET detail == Field(payload.data, "detail")
      success == Field(payload.data, "success")
      content == Field(payload.data, "content")
  IN
  (/\ descriptor # Null
   /\ detail.type # "string"
   /\ success = JsBoolean(FALSE)
   /\ Carries(content, {"429", "quota"})) =>
     /\ "title" \in DOMAIN descriptor
     /\ descriptor.title = QuotaTitle
     /\ descriptor.details = <<Substring(content.text, DetailsLimit)>>
     /\ StrLength(descriptor.details[1]) <= DetailsLimit

(***************************************************************************)
(* The draft quantity.                                                     *)
(***************************************************************************)
\* C35: starting from the default draft quantity of 100, after any sequence
\* of adjustQuantity(100), adjustQuantity(-100) and changes of the quantity
\* field followed by validateQuantity, the draft quantity is a multiple of
\* 100 and at least 100.
C35_DraftQuantityIsLot ==
  /\ formData.quantity % 100 = 0
  /\ formData.quantity >= 100

\* 250 was entered and rounded to 300, the minus button was used twice and
\* adjustQuantity(-100) was then called at 100.
C35_Witness ==
  /\ entered = 250
  /\ lastOp.op = "adjustQuantity"
  /\ formData.quantity = 100

(***************************************************************************)
(* The step of the flow and the data it shows.                             *)
(***************************************************************************)
\* C36: in every reachable state the step and its data agree: in step 2 a
\* sector analysis is present, in step 3 recommendations are present, and in
\* step 1 there is no analysis, no selection and no recommendations; also
\* when goBack is invoked while a recommend request is pending.
C36_StepAgreesWithData ==
  /\ currentStep = 2 => sectorAnalysis # Null
  /\ currentStep = 3 => stockRecommendations # Null
  /\ currentStep = 1 =>
       /\ sectorAnalysis = Null
       /\ selectedSectors = <<>>
       /\ stockRecommendations = Null

\* C37: whenever the flow is in step 3, the stored recommendations are the
\* response to a request whose sector list holds exactly the sectors now
\* selected, also when toggleSector is invoked while the recommend request
\* is pending.
C37_RecommendationsMatchSelection ==
  currentStep = 3 =>
    /\ stockRecommendations # Null
    /\ SeqToSet(stockRecommendations.selected_sectors) =
         SeqToSet(selectedSectors)

(***************************************************************************)
(* The position being edited.                                              *)
(***************************************************************************)
\* The editing index designates a position of the ledger.
EditedPositionPresent ==
  editingIndex # 0 =>
    /\ editingIndex <= Len(positions)
    /\ positions[editingIndex] # Hole

\* A confirmed deletePosition of the localStorage version while a position
\* is edited: the index follows the edited position, or the edit ends when
\* that position is the one removed.
IndexFollowsSplice ==
  (/\ editingIndex # 0
   /\ lastOp'.op = "deletePosition"
   /\ Len(positions') < Len(positions)) =>
     \E j \in 1..Len(positions) :
       /\ positions' = updateWeights(RemoveAt(positions, j), total_capital)
       /\ editingIndex' = (IF j = editingIndex THEN 0
                           ELSE IF j < editingIndex THEN editingIndex - 1
                           ELSE editingIndex)

\* A reload of the ledger by fetchPositions while a position is edited: the
\* index designates the row with the id of the edited position.
IndexFollowsReload ==
  (/\ editingIndex # 0
   /\ editingIndex <= Len(positions)
   /\ lastOp'.op = "fetchPositions"
   /\ positions' # positions) =>
     /\ editingIndex' # 0 => editingIndex' <= Len(positions')
     /\ editingIndex' # 0 =>
          positions'[editingIndex'].id = positions[editingIndex].id

\* C38: an edit saved with savePosition is applied to the position that was
\* selected with editPosition, even if another position was deleted or the
\* ledger was reloaded in between: the editing index never designates a
\* missing position, and after a removal or a reload it designates the
\* position it designated before.
C38_EditingIndexDesignatesSelected ==
  /\ []EditedPositionPresent
  /\ [][IndexFollowsSplice]_vars
  /\ [][IndexFollowsReload]_vars

\* The three parts on their own.
EditingIndexFollowsSplice == [][IndexFollowsSplice]_vars
EditingIndexFollowsReload == [][IndexFollowsReload]_vars

(***************************************************************************)
(* The stock diagnosis of the Dashboard: runDiagnose, the same function in *)
(* Dashboard.vue (184-234) and part_001 (209-259).                         *)
(***************************************************************************)

\* Most runs of runDiagnose awaiting a response at once, and most scan
\* requests and most alerts followed.
MaxRuns == 2
MaxRequests == 2

\* What is typed into the stock code field, and stockCode.trim().
StockCodes == {"", " ", "000001.SZ"}
Trim(code) == IF code = " " THEN "" ELSE code

\* The values of the apiStatus prop.
ApiStatuses == {"connecting", "connected", "error"}

\* The alerts of runDiagnose.
EnterCodeHint ==
  [type |-> "info", title |-> "enter a stock code",
   message |-> Literal("format example", 31), details |-> Undefined]
NotConnected ==
  [type |-> "warning", title |-> "service not connected",
   message |-> Literal("start the API service", 11), details |-> Undefined]
NetworkError(message) ==
  [type |-> "error", title |-> "network error",
   message |-> Literal("cannot reach the API service", 12),
   details |-> message]

\* The messages of the errors fetch and response.json() throw; an error
\* without message leaves the details undefined.
ThrownMessages == {Undefined, <<Literal("Failed to fetch", 15)>>}

\* The bodies of the responses that are not OK.
ErrorBodies ==
  { Body(JsString(<<Word("429")>>), JsUndefined, JsUndefined),
    Body(JsUndefined, JsUndefined, JsUndefined),
    Body(JsUndefined, JsBoolean(FALSE), JsNumber(429)) }

\* The responses of GET /api/stock/scan: OK with a signal, without one or
\* with the body null, or not OK.
ScanData(signal) == [type |-> "scan", signal |-> signal]
ScanResponses ==
  { [ok |-> TRUE, data |-> d] :
      d \in {ScanData(<<"buy">>), ScanData(Undefined), JsNull} }
    \cup { [ok |-> FALSE, data |-> d] : d \in ErrorBodies }

\* The responses of POST /api/stock/diagnose: a report, the body null, a
\* body with success false under an OK status, or not OK.
Report(success, signal) ==
  [type |-> "body", detail |-> JsUndefined, success |-> success,
   content |-> JsString(<<Filler(5)>>), stock |-> "000001.SZ",
   signal |-> signal]
StockDiagnoseResponses ==
  { [ok |-> TRUE, data |-> d] :
      d \in {Report(JsBoolean(TRUE), <<"hold">>),
             Report(JsUndefined, Undefined),
             Report(JsBoolean(FALSE), Undefined), JsNull} }
    \cup { [ok |-> FALSE, data |-> d] : d \in ErrorBodies \cup {JsNull} }

\* The alert shown for a failed response: parseApiError, then showError
\* with its title, message and details.  An exception of parseApiError
\* reaches the catch block of runDiagnose.
ClassifiedAlert(data, defaultMessage) ==
  LET error == parseApiError(data, defaultMessage) IN
  IF "thrown" \in DOMAIN error
  THEN NetworkError(<<Literal(error.thrown, 46)>>)
  ELSE [type |-> "error", title |-> error.title, message |-> error.message,
        details |-> error.details]

\* The refs runDiagnose leaves alone.
stockFrame == <<flowVars, pfVars, dgVars, dashboard, dashMounted, marketVars,
                clock, payload, descriptor, stockCode, apiStatus>>

\* What the log keeps of a response: "ok" for an OK status whose body does
\* not say success: false, else "failed".
Outcome(response) ==
  IF response.ok /\ Field(response.data, "success") # JsBoolean(FALSE)
  THEN "ok" ELSE "failed"

\* Run r ends with the alert: showError, then the finally block.
RunFails(r, alert, outcome) ==
  /\ Shows(alert)
  /\ isDiagnosingStock' = FALSE
  /\ runs' = RemoveAt(runs, r)
  /\ requests' = [requests EXCEPT ![runs[r].req].outcome = outcome]
  /\ UNCHANGED diagnoseResult

\* runDiagnose up to its first await.
runDiagnose ==
  /\ lastOp' = Op("runDiagnose", Null)
  /\ UNCHANGED <<stockFrame, diagnoseResult>>
  /\ IF Trim(stockCode) = ""
     THEN Shows(EnterCodeHint) /\ UNCHANGED <<isDiagnosingStock, runs, requests>>
     ELSE IF apiStatus # "connected"
     THEN Shows(NotConnected) /\ UNCHANGED <<isDiagnosingStock, runs, requests>>
     ELSE /\ toast' = NoToast
          /\ isDiagnosingStock' = TRUE
          /\ requests' = Append(requests, [url |-> "/api/stock/scan",
                                           ts_code |-> stockCode,
                                           outcome |-> "pending"])
          /\ runs' = Append(runs, [phase |-> "scan",
                                   req |-> Len(requests) + 1,
                                   scanData |-> Null])
          /\ UNCHANGED <<timers, shown>>

\* runDiagnose: the fetch or response.json() awaited by run r throws.
runDiagnoseThrows(r, message) ==
  /\ RunFails(r, NetworkError(message), "failed")
  /\ lastOp' = Op("runDiagnose.throws", Null)
  /\ UNCHANGED stockFrame

\* runDiagnose after the awaits of the scan request.
runDiagnoseScanned(r, response) ==
  /\ runs[r].phase = "scan"
  /\ lastOp' = Op("runDiagnose.scanned", Null)
  /\ UNCHANGED stockFrame
  /\ IF ~response.ok
     THEN RunFails(r, ClassifiedAlert(response.data,
                                      Literal("quick scan failed", 16)),
                   "failed")
     ELSE /\ requests' = Append([requests EXCEPT ![runs[r].req].outcome = "ok"],
                                [url |-> "/api/stock/diagnose",
                                 ts_code |-> stockCode,
                                 outcome |-> "pending"])
          /\ runs' = [runs EXCEPT ![r] = [phase |-> "diagnose",
                                          req |-> Len(requests) + 1,
                                          scanData |-> response.data]]
          /\ UNCHANGED <<toast, timers, shown, isDiagnosingStock,
                         diagnoseResult>>

\* A variant of the end of runDiagnose that stores the report although the
\* body says success: false.
runDiagnoseDiagnosed_IgnoresSuccess(r, response) ==
  LET data == response.data
      scanData == runs[r].scanData
  IN
  /\ runs[r].phase = "diagnose"
  /\ lastOp' = Op("runDiagnose.diagnosed", Null)
  /\ UNCHANGED stockFrame
  /\ IF ~response.ok \/ data = JsNull \/ scanData = JsNull
     THEN RunFails(r, ClassifiedAlert(data, Literal("diagnosis failed", 6)),
                   Outcome(response))
     ELSE /\ diagnoseResult' =
               [stock |-> data.stock, content |-> data.content,
                signal |-> IF scanData.signal # Undefined
                           THEN scanData.signal ELSE data.signal]
          /\ isDiagnosingStock' = FALSE
          /\ runs' = RemoveAt(runs, r)
          /\ requests' = [requests EXCEPT
                            ![runs[r].req].outcome = Outcome(response)]
          /\ UNCHANGED <<toast, timers, shown>>

\* runDiagnose after the awaits of the diagnose request.  Reading success
\* of a null body, or signal of a null scan body, throws a TypeError that
\* the catch block reports.
runDiagnoseDiagnosed(r, response) ==
  LET data == response.data
      scanData == runs[r].scanData
      typeError == NetworkError(<<Literal("TypeError: Cannot read properties of null", 41)>>)
  IN
  /\ runs[r].phase = "diagnose"
  /\ lastOp' = Op("runDiagnose.diagnosed", Null)
  /\ UNCHANGED stockFrame
  /\ IF response.ok /\ data = JsNull
     THEN RunFails(r, typeError, Outcome(response))
     ELSE IF ~response.ok \/ Field(data, "success") = JsBoolean(FALSE)
     THEN RunFails(r, ClassifiedAlert(data, Literal("diagnosis failed", 6)),
                   Outcome(response))
     ELSE IF scanData = JsNull
     THEN RunFails(r, typeError, Outcome(response))
     ELSE /\ diagnoseResult' =
               [stock |-> data.stock, content |-> data.content,
                signal |-> IF scanData.signal # Undefined
                           THEN scanData.signal ELSE data.signal]
          /\ isDiagnosingStock' = FALSE
          /\ runs' = RemoveAt(runs, r)
          /\ requests' = [requests EXCEPT
                            ![runs[r].req].outcome = Outcome(response)]
          /\ UNCHANGED <<toast, timers, shown>>

\* v-model of the stock code field.
setStockCode(code) ==
  /\ code # stockCode
  /\ stockCode' = code
  /\ lastOp' = Op("input", Null)
  /\ UNCHANGED <<flowVars, pfVars, dgVars, dashRefs, clock, payload,
                 descriptor, apiStatus, isDiagnosingStock, diagnoseResult,
                 runs, requests>>

\* The parent passes another apiStatus.
setApiStatus(status) ==
  /\ status # apiStatus
  /\ apiStatus' = status
  /\ lastOp' = Op("apiStatus", Null)
  /\ UNCHANGED <<flowVars, pfVars, dgVars, dashRefs, clock, payload,
                 descriptor, stockCode, isDiagnosingStock, diagnoseResult,
                 runs, requests>>

\* The diagnose button: :disabled="isDiagnosing || apiStatus !== 'connected'".
DiagnoseStockButtonEnabled ==
  ~(isDiagnosingStock \/ apiStatus # "connected")

\* A run can be followed to its end within the bounds.
RunFollowed ==
  /\ Len(runs) < MaxRuns
  /\ Cardinality({i \in 1..Len(requests) :
                    requests[i].url = "/api/stock/scan"}) < MaxRequests
  /\ shown + Len(runs) < MaxRequests

TypeStockCode == \E code \in StockCodes : setStockCode(code)

ApiStatusChanges == \E status \in ApiStatuses : setApiStatus(status)

ClickDiagnoseStock == DiagnoseStockButtonEnabled /\ RunFollowed /\ runDiagnose

\* @keyup.enter of the stock code field, whatever the state of the button.
PressEnter == RunFollowed /\ runDiagnose

ScanArrives == \E r \in 1..Len(runs), response \in ScanResponses :
  runDiagnoseScanned(r, response)

DiagnoseArrives == \E r \in 1..Len(runs), response \in StockDiagnoseResponses :
  runDiagnoseDiagnosed(r, response)

RunThrows == \E r \in 1..Len(runs), message \in ThrownMessages :
  runDiagnoseThrows(r, message)

InitStock ==
  /\ FlowAbsent
  /\ PortfolioAbsent
  /\ DiagnosisInit
  /\ DashboardRefs("part_001")
  /\ day = 1
  /\ hours = 0
  /\ minutes = 0
  /\ payload = Null
  /\ descriptor = Null

NextStock ==
  \/ TypeStockCode
  \/ ApiStatusChanges
  \/ ClickDiagnoseStock
  \/ PressEnter
  \/ ScanArrives
  \/ DiagnoseArrives
  \/ RunThrows

SpecStock == InitStock /\ [][NextStock]_vars

\* The same with the button as the only way to start runDiagnose.
NextStockButton ==
  \/ TypeStockCode
  \/ ApiStatusChanges
  \/ ClickDiagnoseStock
  \/ ScanArrives
  \/ DiagnoseArrives
  \/ RunThrows

SpecStockButton == InitStock /\ [][NextStockButton]_vars

(***************************************************************************)
(* Properties of runDiagnose.                                              *)
(***************************************************************************)
\* The places of the log that hold a request to url with the outcome.
Logged(url, outcome) ==
  {i \in 1..Len(requests) :
     requests[i].url = url /\ requests[i].outcome = outcome}

\* No more diagnose requests were issued than scan requests succeeded.
DiagnoseAfterScan ==
  Cardinality({i \in 1..Len(requests) :
                 requests[i].url = "/api/stock/diagnose"})
    <= Cardinality(Logged("/api/stock/scan", "ok"))

\* diagnoseResult is assigned only in the step in which a diagnose request
\* succeeds.
ResultOnlyOnSuccess ==
  diagnoseResult' # diagnoseResult =>
    \E i \in 1..Len(requests) :
      /\ requests[i].url = "/api/stock/diagnose"
      /\ requests[i].outcome = "pending"
      /\ requests'[i].outcome = "ok"

\* runDiagnose with a blank stock code or without a connected API issues no
\* request.
NoRequestUnlessReady ==
  (/\ lastOp'.op = "runDiagnose"
   /\ Trim(stockCode) = "" \/ apiStatus # "connected") =>
     requests' = requests /\ runs' = runs

\* A step in which a request fails, or in which runDiagnose shows an error,
\* keeps diagnoseResult.
FailureKeepsResult ==
  (\/ shown' # shown
   \/ \E i \in 1..Len(requests) :
        requests[i].outcome = "pending" /\ requests'[i].outcome = "failed") =>
     diagnoseResult' = diagnoseResult

\* C39: runDiagnose issues the deep-diagnose request only after the quick
\* scan request has succeeded and replaces diagnoseResult only when both
\* requests succeed; with an empty stock code or an API that is not
\* connected it issues no request, and on any failure the previous
\* diagnoseResult is kept.
C39_DiagnoseAfterScan ==
  /\ []DiagnoseAfterScan
  /\ [][ResultOnlyOnSuccess]_vars
  /\ [][NoRequestUnlessReady]_vars
  /\ [][FailureKeepsResult]_vars

\* A report is shown, and a scan request of another run has failed after
\* it was stored.
C39_Witness ==
  /\ diagnoseResult # Null
  /\ lastOp.op = "runDiagnose.scanned"
  /\ Logged("/api/stock/diagnose", "ok") # {}
  /\ Logged("/api/stock/scan", "failed") # {}

\* C40: isDiagnosing is true whenever a run of runDiagnose is in flight,
\* also when runDiagnose is started again through the Enter key while an
\* earlier run is pending, and at most one run is in flight at a time.
C40_OneRunFlagged ==
  /\ runs # <<>> => isDiagnosingStock
  /\ Len(runs) <= 1

====
